---- MODULE Spec2Model ----
(***************************************************************************)
(* Task inactivity orchestrator of twilio-services: the internal task      *)
(* table (tasks.repository.ts), the inactivity scheduler                   *)
(* (TaskInactivityScheduler), the service handlers of tasks.service.ts and *)
(* the reconciliation worker (tasks.worker).                               *)
(*                                                                         *)
(* Every `await` on real I/O (a store query, a provider call) is a point   *)
(* where other handlers run, so an async handler is a sequence of steps:   *)
(* its position is kept in a record of `calls` (timer callbacks), `ticks`  *)
(* (executions of autoProcessAssignedTasks) or `reqs` (HTTP / webhook      *)
(* handlers).  Time is the wall clock in milliseconds.                     *)
(***************************************************************************)
EXTENDS Integers, Sequences, FiniteSets, Bags, TLC

\* ------------------------------------------------------------ bounds
\* Handlers that may be in flight (started, not yet returned) at once: timer
\* callbacks, HTTP / webhook handlers and executions of tick() together.
MaxInFlight == 2

\* ------------------------------------------------- program constants
\* tasks.controller.ts:269  base + 5_000 - now
PingDelayMs == 5000
\* tasks.controller.ts:270  base + 30_000 - now
InactiveDelayMs == 30000

\* The instants of wall time the model passes through, in ms: a greeting at 0
\* has its ping due at the second and its closure due at the third; a later
\* greeting has its ping fire late, and a timer armed late finds its deadline
\* passed.
Instants == <<0, PingDelayMs, InactiveDelayMs>>

\* A column that is null / a field that is undefined.
NULL == -1

TaskIds == {"t1"}
\* The TaskRouter task the provider lists, and its conversation.
FlexSids == {"WT1"}
\* The keys of the scheduler's map: internal task ids and TaskRouter task sids.
SchedIds == TaskIds \cup FlexSids
\* The order in which the store returns the rows of a scan.
TaskSeq == <<"t1">>
\* Values of customer_contact and of the webhook's From; the tasks the HTTP
\* API creates are all of the first customer.
Contacts == {"+5511", "+5522"}
CustomerContact == "+5511"

Max(a, b) == IF a >= b THEN a ELSE b

\* ------------------------------------------------------------- state
VARIABLES
  now,        \* wall clock (Date.now(), new Date())
  tasks,      \* table `tasks`: id -> row
  timers,     \* TaskInactivityScheduler.timers: id -> entry
  pending,    \* timeouts armed in the runtime (setTimeout not yet fired or cleared)
  calls,      \* bag of timer callbacks in flight
  running,    \* tasks.worker: `running`
  ticks,      \* bag of executions of tick() in progress
  reqs,       \* bag of HTTP / webhook handlers in flight
  sent,       \* id -> messages delivered in the current greeting epoch
  lastOp,     \* id -> the last call of the scheduler made on the id (SchedSpec)
  lastTick,   \* what the last call of tick() did
  flex_tasks, \* table `flex_tasks`: task_sid -> row
  flex_tasks_by_conversation, \* table `flex_tasks_by_conversation`: its rows
  twilio,     \* the provider: the conversation's participants and messages,
              \* the conversation, the TaskRouter task, the worker fetches made
  workerNameCache, \* TasksService.workerNameCache: workerSid -> name ("" is absent)
  env,        \* process.env: TASKS_FLEX_CLOSE_CONVERSATION, TASKS_FLEX_COMPLETE_TASK
  intervalHandle, \* tasks.worker: `intervalHandle` is set (not null)
  shutdown,   \* position of the SIGINT / SIGTERM handler, or "crashed"
  unhandled,  \* a promise rejected with no handler attached (unhandledRejection)
  lastReply   \* the response of the last HTTP / webhook handler that returned

\* What the flex pipeline works on: its two tables, the provider and the
\* service's cache; the worker's interval and the signal handler.
flexWorld == <<twilio, workerNameCache, env>>
flexStore == <<flex_tasks, flex_tasks_by_conversation, flexWorld>>
process == <<intervalHandle, shutdown, unhandled>>

vars == <<now, tasks, timers, pending, calls, running, ticks, reqs, sent, lastOp, lastTick,
          flexStore, process, lastReply>>

\* Handlers in flight, and whether one more may start.
InFlight == BagCardinality(calls) + BagCardinality(reqs) + BagCardinality(ticks)
MayStart == InFlight < MaxInFlight

\* ------------------------------------------------------------- rows
\* The workers of the workspace.
WorkerSids == {"WK1"}

\* The provider before anything was posted: the conversation holds the
\* customer's participant only (a messaging binding, no identity).
NoTwilio ==
  [participants |-> <<[identity |-> "", address |-> "+5511", attributes |-> ""]>>,
   greetings |-> <<>>, pings |-> <<>>, closures |-> <<>>,
   conversation |-> "active", closeCalls |-> 0,
   task |-> "assigned", completeCalls |-> 0,
   fetches |-> [w \in WorkerSids |-> 0]]

\* Neither variable of the inactivity teardown is set ("" is unset).
NoEnv == [TASKS_FLEX_CLOSE_CONVERSATION |-> "", TASKS_FLEX_COMPLETE_TASK |-> ""]

\* new Map(): no name cached.
NoCache == [w \in WorkerSids |-> ""]

\* A task id with no row in the table (findById returns null).
NoRow ==
  [status |-> "none", customer_contact |-> "", operator |-> FALSE, assigned_at |-> NULL,
   greeting_sent_at |-> NULL, ping_sent_at |-> NULL, inactive_sent_at |-> NULL,
   last_customer_activity_at |-> NULL, closed_at |-> NULL, close_reason |-> "none",
   updated_at |-> NULL]

\* tasksRepository.create: INSERT ... status 'open', created_at = updated_at = now.
CreateRow(t) ==
  [NoRow EXCEPT !.status = "open", !.customer_contact = CustomerContact, !.updated_at = t]

\* tasksRepository.assignToOperator's UPDATE; `assignedAt` is
\* existing.assigned_at ?? now of the read that preceded it.
AssignRow(row, assignedAt, t) ==
  [row EXCEPT !.operator = TRUE, !.status = "assigned", !.assigned_at = assignedAt,
              !.updated_at = t]

\* An UPDATE that writes the greeting and leaves the marks of the old epoch:
\* the fault C28 has to detect.
SetGreetingRowKeepsMarks(row, g, t) ==
  [row EXCEPT !.greeting_sent_at = g, !.updated_at = t]

\* tasksRepository.setGreetingSent's UPDATE.
SetGreetingRow(row, g, t) ==
  [row EXCEPT !.greeting_sent_at = g, !.ping_sent_at = NULL,
              !.inactive_sent_at = NULL, !.updated_at = t]

\* tasksRepository.markCustomerActivity's UPDATE.
ActivityRow(row, at, t) ==
  [row EXCEPT !.last_customer_activity_at = at, !.updated_at = t]

\* tasksRepository.markPingSent's UPDATE.
PingRow(row, at, t) == [row EXCEPT !.ping_sent_at = at, !.updated_at = t]

\* tasksRepository.closeDueToInactivity's UPDATE.
CloseRow(row, at, t) ==
  [row EXCEPT !.inactive_sent_at = at, !.status = "closed", !.closed_at = at,
              !.close_reason = "inactivity", !.updated_at = t]

\* `task.last_customer_activity_at && task.last_customer_activity_at > task.greeting_sent_at`
\* (a comparison with an undefined greeting_sent_at is false).
ActivityAfterGreeting(row) ==
  /\ row.last_customer_activity_at # NULL
  /\ row.greeting_sent_at # NULL
  /\ row.last_customer_activity_at > row.greeting_sent_at

\* A row of flex_tasks; "" is a text column that is null. Of the columns
\* copied from the provider's task the row keeps those the handlers read.
NoFlexRow ==
  [exists |-> FALSE, customer_address |-> "", customer_from |-> "", worker_sid |-> "",
   worker_name |-> "", greeting_sent_at |-> NULL, ping_sent_at |-> NULL,
   inactive_sent_at |-> NULL, last_customer_activity_at |-> NULL,
   created_at |-> NULL, updated_at |-> NULL]

\* -------------------------------------------------------- scheduler
NoEntry == [pingTimeout |-> NULL, inactiveTimeout |-> NULL]

\* The scheduler seen by its operations: the map `timers` and the runtime's
\* armed timeouts `pending`.
SchedState == [timers |-> timers, pending |-> pending]

\* TaskInactivityScheduler.has
Has(S, id) == S.timers[id] # NoEntry

\* A timeout handle: the callback it runs and the time it is due.
Timeout(id, kind, due) == [id |-> id, kind |-> kind, due |-> due]

\* The handles an entry of the map holds.
EntryTimeouts(S, id) ==
  IF Has(S, id)
    THEN {Timeout(id, "ping", S.timers[id].pingTimeout),
          Timeout(id, "inactive", S.timers[id].inactiveTimeout)}
    ELSE {}

\* A cancel that deletes the entry and leaves its timeouts armed: the fault C9
\* has to detect.
CancelKeepTimeouts(S, id) ==
  [S EXCEPT !.timers[id] = NoEntry]

\* TaskInactivityScheduler.cancel: clearTimeout on both handles, delete the entry.
Cancel(S, id) ==
  [S EXCEPT !.timers[id] = NoEntry,
            !.pending = S.pending \ EntryTimeouts(S, id)]

\* A delay counted from the arm time instead of the greeting: the fault C15 has
\* to detect.
MsUntilFromArm(base, delay, t) == delay

\* msUntilPing / msUntilInactive of schedule: Math.max(0, base + delay - now).
MsUntil(base, delay, t) == Max(0, base + delay - t)

\* A schedule that does not cancel the entry it replaces: the fault C16 has to
\* detect.
ScheduleNoCancel(S, id, greetingSentAt, t) ==
  LET pingDue == t + MsUntil(greetingSentAt, PingDelayMs, t)
      inactiveDue == t + MsUntil(greetingSentAt, InactiveDelayMs, t)
  IN [S EXCEPT !.timers[id] = [pingTimeout |-> pingDue, inactiveTimeout |-> inactiveDue],
               !.pending = S.pending \cup {Timeout(id, "ping", pingDue),
                                           Timeout(id, "inactive", inactiveDue)}]

\* TaskInactivityScheduler.schedule at wall time t.
Schedule(S, id, greetingSentAt, t) ==
  LET C == Cancel(S, id)
      pingDue == t + MsUntil(greetingSentAt, PingDelayMs, t)
      inactiveDue == t + MsUntil(greetingSentAt, InactiveDelayMs, t)
  IN [C EXCEPT !.timers[id] = [pingTimeout |-> pingDue, inactiveTimeout |-> inactiveDue],
               !.pending = C.pending \cup {Timeout(id, "ping", pingDue),
                                           Timeout(id, "inactive", inactiveDue)}]

\* A scheduleInternalInactivityTimers that arms nothing: the fault C14 has to
\* detect.
ScheduleInternalNever(S, id, row, t) == S

\* TasksService.scheduleInternalInactivityTimers(task)
ScheduleInternal(S, id, row, t) ==
  IF row.greeting_sent_at = NULL THEN S
  ELSE IF Has(S, id) THEN S
  ELSE Schedule(S, id, row.greeting_sent_at, t)

SetSched(S) ==
  /\ timers' = S.timers
  /\ pending' = S.pending

\* The scheduler called directly: schedule(taskId, greetingSentAt, callbacks)
\* and cancel(taskId), with `lastOp` keeping the call: the armed timeouts it
\* cleared and, for schedule, its greetingSentAt and the wall time of the call.
NoOp == [op |-> "none", cleared |-> {}, greetingSentAt |-> NULL, at |-> NULL]

SchedSchedule(id, greetingSentAt) ==
  /\ SetSched(Schedule(SchedState, id, greetingSentAt, now))
  /\ lastOp' = [lastOp EXCEPT ![id] =
                  [NoOp EXCEPT !.op = "schedule",
                               !.cleared = EntryTimeouts(SchedState, id) \cap pending,
                               !.greetingSentAt = greetingSentAt,
                               !.at = now]]
  /\ UNCHANGED <<now, tasks, calls, running, ticks, reqs, sent, lastTick, flexStore, process, lastReply>>

SchedCancel(id) ==
  /\ SetSched(Cancel(SchedState, id))
  /\ lastOp' = [lastOp EXCEPT ![id] =
                  [NoOp EXCEPT !.op = "cancel",
                               !.cleared = EntryTimeouts(SchedState, id) \cap pending]]
  /\ UNCHANGED <<now, tasks, calls, running, ticks, reqs, sent, lastTick, flexStore, process, lastReply>>

\* ------------------------------------------------------------ clock
\* Wall time passes.
AdvanceClock ==
  /\ \E i \in 1..(Len(Instants) - 1) :
       /\ now = Instants[i]
       /\ now' = Instants[i + 1]
  /\ UNCHANGED <<tasks, timers, pending, calls, running, ticks, reqs, sent, lastOp, flexStore, process, lastReply, lastTick>>

\* ----------------------------------------------------- sent messages
NoneSent == [ping |-> 0, inactive |-> 0]
\* One more message of `kind` in the epoch (counted up to 2).
CountSent(s, kind) == [s EXCEPT ![kind] = IF @ < 2 THEN @ + 1 ELSE @]

\* -------------------------------------------------- timer callbacks
Call(kind, id, pc, at) ==
  [kind |-> kind, id |-> id, pc |-> pc, at |-> at, task |-> NoFlexRow, identity |-> ""]

\* A timeout whose callback deletes the entry once both have run: the fault C36
\* has to detect.
FireRemovesEntry(h) ==
  /\ h \in pending
  /\ now >= h.due
  /\ MayStart
  /\ pending' = pending \ {h}
  /\ timers' = IF EntryTimeouts(SchedState, h.id) \cap pending \subseteq {h}
                 THEN [timers EXCEPT ![h.id] = NoEntry]
                 ELSE timers
  /\ calls' = calls (+) SetToBag({Call(h.kind, h.id, "read", NULL)})
  /\ UNCHANGED <<now, tasks, running, ticks, reqs, sent, lastOp, flexStore, process, lastReply, lastTick>>

\* The runtime runs a due timeout: `void callbacks.onPing()` / `onInactive()`,
\* which starts with `await tasksRepository.findById(taskId)`.
Fire(h) ==
  /\ h \in pending
  /\ now >= h.due
  /\ MayStart
  /\ pending' = pending \ {h}
  /\ calls' = calls (+) SetToBag({Call(h.kind, h.id, "read", NULL)})
  /\ UNCHANGED <<now, tasks, timers, running, ticks, reqs, sent, lastOp, flexStore, process, lastReply, lastTick>>

\* A ping callback that never sends: the fault C13 has to detect.
PingAllowedNever(row) == FALSE

\* The preconditions sendInternalPingIfInactive checks on the row it read.
PingAllowed(row) ==
  /\ row.status # "none"
  /\ row.status = "assigned"
  /\ row.greeting_sent_at # NULL
  /\ row.ping_sent_at = NULL
  /\ ~ActivityAfterGreeting(row)

\* The preconditions sendInternalInactiveAndClose checks on the row it read.
InactiveAllowed(row) ==
  /\ row.status # "none"
  /\ row.status = "assigned"
  /\ row.greeting_sent_at # NULL
  /\ row.inactive_sent_at = NULL
  /\ ~ActivityAfterGreeting(row)

\* findById returns and the callback checks the row; when the checks pass it
\* calls sendSMS.
CallRead(c) ==
  /\ BagIn(c, calls)
  /\ c.pc = "read"
  /\ LET allowed == IF c.kind = "ping" THEN PingAllowed(tasks[c.id])
                    ELSE InactiveAllowed(tasks[c.id])
     IN calls' = IF allowed
                   THEN (calls (-) SetToBag({c})) (+) SetToBag({[c EXCEPT !.pc = "send"]})
                   ELSE calls (-) SetToBag({c})
  /\ UNCHANGED <<now, tasks, timers, pending, running, ticks, reqs, sent, lastOp, flexStore, process, lastReply, lastTick>>

\* What the runtime does with a rejected promise nobody handles: it reports it
\* and goes on, or it ends the process (the unhandled-rejections mode, which
\* the repository does not set).
RejectionModes == {"warn", "throw"}

\* schedule: `setTimeout(() => { void callbacks.onPing(); }, ...)`: the promise
\* of the callback is dropped, so its rejection reaches the runtime.
RejectionOf(mode) ==
  [unhandled |-> TRUE, crashes |-> mode = "throw"]

\* findById rejects (the store fails): the callback's promise rejects.
CallReadFails(c, mode) ==
  /\ BagIn(c, calls)
  /\ c.pc = "read"
  /\ LET r == RejectionOf(mode)
     IN /\ unhandled' = (unhandled \/ r.unhandled)
        /\ IF r.crashes
             THEN /\ shutdown' = "crashed"
                  /\ timers' = [id \in SchedIds |-> NoEntry]
                  /\ pending' = {}
                  /\ calls' = EmptyBag
                  /\ ticks' = EmptyBag
                  /\ reqs' = EmptyBag
                  /\ running' = FALSE
             ELSE /\ calls' = calls (-) SetToBag({c})
                  /\ UNCHANGED <<shutdown, timers, pending, ticks, reqs, running>>
  /\ UNCHANGED <<now, tasks, sent, lastOp, lastTick, flexStore, intervalHandle, lastReply>>

\* A callback that goes on to its write whatever sendSMS resolved to: the
\* fault C23 has to detect.
CallSendIgnoresResult(c, ok) ==
  /\ BagIn(c, calls)
  /\ c.pc = "send"
  /\ calls' = (calls (-) SetToBag({c})) (+) SetToBag({[c EXCEPT !.pc = "write", !.at = now]})
  /\ sent' = IF ok THEN [sent EXCEPT ![c.id] = CountSent(@, c.kind)] ELSE sent
  /\ UNCHANGED <<now, tasks, timers, pending, running, ticks, reqs, lastOp, flexStore, process, lastReply, lastTick>>

\* sendSMS resolves: true when the provider accepted the message, false otherwise.
CallSend(c, ok) ==
  /\ BagIn(c, calls)
  /\ c.pc = "send"
  /\ IF ok
       THEN /\ calls' = (calls (-) SetToBag({c}))
                          (+) SetToBag({[c EXCEPT !.pc = "write", !.at = now]})
            /\ sent' = [sent EXCEPT ![c.id] = CountSent(@, c.kind)]
       ELSE /\ calls' = calls (-) SetToBag({c})
            /\ sent' = sent
  /\ UNCHANGED <<now, tasks, timers, pending, running, ticks, reqs, lastOp, flexStore, process, lastReply, lastTick>>

\* After a successful send: markPingSent, or closeDueToInactivity and cancel.
CallWrite(c) ==
  /\ BagIn(c, calls)
  /\ c.pc = "write"
  /\ calls' = calls (-) SetToBag({c})
  /\ IF c.kind = "ping"
       THEN /\ tasks' = [tasks EXCEPT ![c.id] = PingRow(@, c.at, now)]
            /\ UNCHANGED <<timers, pending>>
       ELSE /\ tasks' = [tasks EXCEPT ![c.id] = CloseRow(@, c.at, now)]
            /\ SetSched(Cancel(SchedState, c.id))
  /\ UNCHANGED <<now, running, ticks, reqs, sent, lastOp, flexStore, process, lastReply, lastTick>>

\* ------------------------------------------- HTTP and webhook handlers
\* A response: its status and its body, `data` for { data: task }, `message`
\* for { message } and `twiml` for the text <Response></Response>.
\* `error`: the service threw in the handler.
NoReply == [status |-> NULL, body |-> "none", error |-> FALSE]
Reply(status, body, error) == [status |-> status, body |-> body, error |-> error]
\* The routes' `return { data: task }` and their catch: `set.status = 400;
\* return { message }`.
Ok == Reply(200, "data", FALSE)
BadRequest == Reply(400, "message", TRUE)
\* POST /tasks/twilio/inbound: `return "<Response></Response>"`.
Twiml == Reply(200, "twiml", FALSE)

Req(op, id, pc, at, greet) ==
  [op |-> op, id |-> id, pc |-> pc, at |-> at, greet |-> greet, author |-> ""]

ReqMove(r, q) == reqs' = (reqs (-) SetToBag({r})) (+) SetToBag({q})
ReqDone(r) == reqs' = reqs (-) SetToBag({r})

\* POST /tasks: tasksRepository.create.
Create(id) ==
  /\ tasks[id].status = "none"
  /\ tasks' = [tasks EXCEPT ![id] = CreateRow(now)]
  /\ UNCHANGED <<now, timers, pending, calls, running, ticks, reqs, sent, lastOp, flexStore, process, lastReply, lastTick>>

\* POST /tasks/:id/assign (op "assign") and POST /tasks/:id/handoff (op
\* "handoff", with body.sendGreeting) arrive: assignToOperator reads the row.
\* `at` keeps existing.assigned_at.
ReqAssign(op, id, greet) ==
  /\ MayStart
  /\ IF tasks[id].status = "none"
       THEN /\ reqs' = reqs    \* 'Task not found'
            /\ lastReply' = BadRequest
       ELSE /\ reqs' = reqs (+) SetToBag({Req(op, id, "assign", tasks[id].assigned_at, greet)})
            /\ lastReply' = lastReply
  /\ UNCHANGED <<now, tasks, timers, pending, calls, running, ticks, sent, lastOp, flexStore, process, lastTick>>

\* assignToOperator's UPDATE; startOperatorHandoff goes on to send the greeting.
ReqAssignWrite(r) ==
  /\ BagIn(r, reqs)
  /\ r.pc = "assign"
  /\ tasks' = [tasks EXCEPT ![r.id] = AssignRow(@, IF r.at # NULL THEN r.at ELSE now, now)]
  /\ IF r.op = "handoff"
       THEN /\ ReqMove(r, [r EXCEPT !.pc = "send", !.at = NULL])
            /\ lastReply' = lastReply
       ELSE /\ ReqDone(r)
            /\ lastReply' = Ok
  /\ UNCHANGED <<now, timers, pending, calls, running, ticks, sent, lastOp, flexStore, process, lastTick>>

\* A startOperatorHandoff that goes on to setGreetingSent whatever sendSMS
\* resolved to: the fault C24 has to detect.
ReqHandoffSendIgnoresFailure(r, ok) ==
  /\ BagIn(r, reqs)
  /\ r.pc = "send"
  /\ r.greet \/ ok
  /\ ReqMove(r, [r EXCEPT !.pc = "greet", !.at = now])
  /\ UNCHANGED <<now, tasks, timers, pending, calls, running, ticks, sent, lastOp, flexStore,
                 process, lastReply, lastTick>>

\* startOperatorHandoff: sendSMS resolves (when sendGreeting), then
\* greetingSentAt = new Date(); a failed send throws.
ReqHandoffSend(r, ok) ==
  /\ BagIn(r, reqs)
  /\ r.pc = "send"
  /\ r.greet \/ ok
  /\ IF ok
       THEN /\ ReqMove(r, [r EXCEPT !.pc = "greet", !.at = now])
            /\ lastReply' = lastReply
       ELSE /\ ReqDone(r)
            /\ lastReply' = BadRequest
  /\ UNCHANGED <<now, tasks, timers, pending, calls, running, ticks, sent, lastOp, flexStore, process, lastTick>>

\* POST /tasks/:id/greeting: registerOperatorGreeting reads the row, requires
\* status 'assigned', and takes new Date() as the greeting time.
ReqRegisterGreeting(id) ==
  /\ MayStart
  /\ IF tasks[id].status = "assigned"
       THEN /\ reqs' = reqs (+) SetToBag({Req("greeting", id, "greet", now, FALSE)})
            /\ lastReply' = lastReply
       ELSE /\ reqs' = reqs    \* 'Task not found' / 'Task is not assigned to an operator'
            /\ lastReply' = BadRequest
  /\ UNCHANGED <<now, tasks, timers, pending, calls, running, ticks, sent, lastOp, flexStore, process, lastTick>>

\* setGreetingSent's UPDATE, the row read back, scheduleInternalInactivityTimers.
ReqGreetWrite(r) ==
  /\ BagIn(r, reqs)
  /\ r.pc = "greet"
  /\ LET row == SetGreetingRow(tasks[r.id], r.at, now)
     IN /\ tasks' = [tasks EXCEPT ![r.id] = row]
        /\ SetSched(ScheduleInternal(SchedState, r.id, row, now))
  /\ sent' = [sent EXCEPT ![r.id] = NoneSent]
  /\ ReqDone(r)
  /\ lastReply' = Ok
  /\ UNCHANGED <<now, calls, running, ticks, lastOp, flexStore, process, lastTick>>

\* POST /tasks/:id/activity: markCustomerActivity(taskId) takes new Date() and
\* calls the repository.
ReqMarkActivity(id) ==
  /\ MayStart
  /\ reqs' = reqs (+) SetToBag({Req("activity", id, "activity", now, FALSE)})
  /\ UNCHANGED <<now, tasks, timers, pending, calls, running, ticks, sent, lastOp, flexStore, process, lastReply, lastTick>>

\* A pick of any row the scan returns: the fault C31 has to detect.
LatestAssignedAny(customerContact) ==
  {id \in DOMAIN tasks : /\ tasks[id].status = "assigned"
                         /\ tasks[id].customer_contact = customerContact}

\* The rows of findAssignedByCustomerContact that sort first by updated_at
\* descending: `latest` is one of them (the store fixes no order among rows of
\* one updated_at).
LatestAssigned(customerContact) ==
  LET candidates == {id \in DOMAIN tasks : /\ tasks[id].status = "assigned"
                                          /\ tasks[id].customer_contact = customerContact}
  IN {id \in candidates : \A o \in candidates : tasks[id].updated_at >= tasks[o].updated_at}

\* POST /tasks/twilio/inbound with From: markCustomerActivityByContact reads the
\* candidates, picks the latest and takes new Date().
ReqMarkByContact(customerContact) ==
  /\ MayStart
  /\ IF LatestAssigned(customerContact) = {}
       THEN /\ reqs' = reqs
            /\ lastReply' = Twiml
       ELSE /\ \E id \in LatestAssigned(customerContact) :
                 reqs' = reqs (+) SetToBag({Req("contact", id, "activity", now, FALSE)})
            /\ lastReply' = lastReply
  /\ UNCHANGED <<now, tasks, timers, pending, calls, running, ticks, sent, lastOp, flexStore, process, lastTick>>

\* repository.markCustomerActivity's UPDATE (null when the row does not exist:
\* markCustomerActivity then throws and does not cancel), then cancel.
ReqActivityWrite(r) ==
  /\ BagIn(r, reqs)
  /\ r.pc = "activity"
  /\ IF tasks[r.id].status = "none"
       THEN /\ UNCHANGED <<tasks, timers, pending>>
            /\ lastReply' = IF r.op = "contact" THEN Twiml ELSE BadRequest
       ELSE /\ tasks' = [tasks EXCEPT ![r.id] = ActivityRow(@, r.at, now)]
            /\ SetSched(Cancel(SchedState, r.id))
            /\ lastReply' = IF r.op = "contact" THEN Twiml ELSE Ok
  /\ ReqDone(r)
  /\ UNCHANGED <<now, calls, running, ticks, sent, lastOp, flexStore, process, lastTick>>

\* ------------------------------------------------ reconciliation loop
\* Values of the environment variable TASKS_AUTO_SOURCE ("" is unset or empty).
EnvSources == {"", "internal", "flex", "auto", "INTERNAL", "Flex"}

\* String.prototype.toLowerCase on the strings of the model.
ToLowerCase(v) ==
  CASE v = "INTERNAL" -> "internal"
    [] v = "Flex" -> "flex"
    [] v = "WK1" -> "wk1"
    [] v = "Ana" -> "ana"
    [] OTHER -> v

\* process.env.TASKS_AUTOMATION_AUTHOR || 'System', with the variable unset.
AutomationAuthor == "System"

\* String.prototype.trim on the strings of the model.
Trim(v) ==
  CASE v = " " -> ""
    [] v = " +5511 " -> "+5511"
    [] v = " Ana " -> "Ana"
    [] v = " wk1 " -> "wk1"
    [] OTHER -> v

\* (process.env.TASKS_AUTO_SOURCE || 'auto').toLowerCase()
ResolveSource(raw) == ToLowerCase(IF raw = "" THEN "auto" ELSE raw)

\* What one call of autoProcessFlexAssignedTasks meets at the provider.
FlexOutcomes ==
  {"nocreds",         \* TWILIO_ACCOUNT_SID / TWILIO_AUTH_TOKEN missing: no client
   "noworkspace",     \* resolveWorkspaceSid returns null
   "workspacefails",  \* workspaces.list rejects
   "listfails",       \* tasks.list rejects
   "reservationsfail",\* a task's reservations.list rejects
   "zero",            \* tasks.list returns no task
   "some"}            \* tasks.list returns tasks, each left at a `continue`
                      \* before anything is stored (no conversation, no
                      \* accepted reservation)

\* autoProcessFlexAssignedTasks: "false" / "true" for the boolean it resolves
\* to, "threw" when it rejects.
FlexResult(outcome) ==
  CASE outcome = "nocreds" -> "false"
    [] outcome = "noworkspace" -> "false"
    [] outcome \in {"workspacefails", "listfails", "reservationsfail"} -> "threw"
    [] OTHER -> "true"

\* autoProcessAssignedTasks: `if (source !== 'internal')`
RunsFlex(source) == source # "internal"

\* A dispatch that calls the internal pipeline whatever the source and the flex
\* result: the fault C6 has to detect.
RunsInternalAlways(source, processedFlex) == TRUE

\* autoProcessAssignedTasks after the flex pipeline resolved to `processedFlex`
\* ("true" / "false"): `if (processedFlex || source === 'flex') return;` and
\* then `if (source !== 'flex')` the internal pipeline is called.
RunsInternal(source, processedFlex) ==
  /\ ~(processedFlex = "true" \/ source = "flex")
  /\ source # "flex"

\* A tick() without its guard: the fault C5 has to detect.
TickSkipsNever(r) == FALSE

\* tick(): `if (running) return;`
TickSkips(r) == r

\* lastTick: the environment value and source of the last execution, what the
\* flex pipeline met and resolved to, whether the internal pipeline was called,
\* whether the execution is over, and whether a later call of tick() returned
\* at `if (running) return`.
NoTick == [raw |-> "", source |-> "none", outcome |-> "none", flex |-> "notrun",
           internal |-> FALSE, done |-> TRUE, dropped |-> FALSE]

Tick(pc, source, list, at) ==
  [pc |-> pc, source |-> source, list |-> list, at |-> at, identity |-> ""]

TickMove(t, u) == ticks' = (ticks (-) SetToBag({t})) (+) SetToBag({u})

\* A tick() whose `finally` does not reset the flag: the fault C21 has to detect.
TickEndKeepsRunning(t) ==
  /\ ticks' = ticks (-) SetToBag({t})
  /\ running' = running

\* tick()'s `finally`: the execution is over.
TickEnd(t) ==
  /\ ticks' = ticks (-) SetToBag({t})
  /\ running' = FALSE

\* The interval (or startTasksAutoProcessor) calls tick() and it goes on to
\* autoProcessAssignedTasks.
TickFire(raw) ==
  /\ ~TickSkips(running)
  /\ MayStart
  /\ LET source == ResolveSource(raw)
     IN /\ running' = TRUE
        /\ ticks' = ticks (+) SetToBag({Tick(IF RunsFlex(source) THEN "flex" ELSE "list",
                                             source, <<>>, NULL)})
        /\ lastTick' = [NoTick EXCEPT !.raw = raw, !.source = source, !.done = FALSE,
                                      !.internal = ~RunsFlex(source)]
  /\ UNCHANGED <<now, tasks, timers, pending, calls, reqs, sent, lastOp, flexStore, process, lastReply>>

\* The interval calls tick() and it returns at `if (running) return`.
TickDrop ==
  /\ TickSkips(running)
  /\ lastTick' = [lastTick EXCEPT !.dropped = TRUE]
  /\ UNCHANGED <<now, tasks, timers, pending, calls, running, ticks, reqs, sent, lastOp, flexStore, process, lastReply>>

\* autoProcessFlexAssignedTasks settles.
TickFlex(t, outcome) ==
  /\ BagIn(t, ticks)
  /\ t.pc = "flex"
  /\ LET res == FlexResult(outcome)
     IN IF res # "threw" /\ RunsInternal(t.source, res)
          THEN /\ TickMove(t, [t EXCEPT !.pc = "list"])
               /\ running' = running
               /\ lastTick' = [lastTick EXCEPT !.flex = res, !.outcome = outcome,
                                               !.internal = TRUE]
          ELSE /\ TickEnd(t)
               /\ lastTick' = [lastTick EXCEPT !.flex = res, !.outcome = outcome,
                                               !.done = TRUE]
  /\ UNCHANGED <<now, tasks, timers, pending, calls, reqs, sent, lastOp, flexStore, process, lastReply>>

\* What the for loop of autoProcessInternalAssignedTasks does with a row of its
\* list, decided by the fields of the row as it was read: `continue` ("skip"),
\* cancel and continue ("cancel"), scheduleInternalInactivityTimers(task)
\* ("schedule"), or send the greeting ("greet").
LoopBranch(row) ==
  IF row.status # "assigned" THEN "skip"
  ELSE IF ~row.operator THEN "skip"
  ELSE IF row.greeting_sent_at # NULL
    THEN IF ActivityAfterGreeting(row) THEN "cancel"
         ELSE IF row.inactive_sent_at # NULL THEN "cancel"
         ELSE "schedule"
  ELSE "greet"

\* findByStatus('assigned', batchSize): the rows as the store holds them now;
\* of a row the list keeps what the loop reads: its branch and greeting_sent_at.
RECURSIVE AssignedRows(_)
AssignedRows(ids) ==
  IF ids = <<>> THEN <<>>
  ELSE (IF tasks[Head(ids)].status = "assigned"
          THEN <<[id |-> Head(ids), branch |-> LoopBranch(tasks[Head(ids)]),
                  greeting_sent_at |-> tasks[Head(ids)].greeting_sent_at]>>
          ELSE <<>>) \o AssignedRows(Tail(ids))

\* The for loop of autoProcessInternalAssignedTasks from `list` on, up to the
\* first task that awaits (the greeting's sendSMS) or the end of the list.
RECURSIVE InternalLoop(_, _, _)
InternalLoop(list, S, t) ==
  IF list = <<>> THEN [list |-> <<>>, sched |-> S]
  ELSE LET e == Head(list)
       IN CASE e.branch = "skip" -> InternalLoop(Tail(list), S, t)
            [] e.branch = "cancel" -> InternalLoop(Tail(list), Cancel(S, e.id), t)
            [] e.branch = "schedule" ->
                 InternalLoop(Tail(list), ScheduleInternal(S, e.id, e, t), t)
            [] OTHER -> [list |-> list, sched |-> S]

\* The loop runs on from `list` with the scheduler as S.
TickContinue(t, list, S) ==
  LET r == InternalLoop(list, S, now)
  IN /\ SetSched(r.sched)
     /\ IF r.list = <<>>
          THEN /\ TickEnd(t)
               /\ lastTick' = [lastTick EXCEPT !.done = TRUE]
          ELSE /\ TickMove(t, [t EXCEPT !.pc = "greetSend", !.list = r.list, !.at = NULL])
               /\ running' = running
               /\ lastTick' = lastTick

\* autoProcessInternalAssignedTasks: the store answers findByStatus.
TickList(t) ==
  /\ BagIn(t, ticks)
  /\ t.pc = "list"
  /\ TickMove(t, [t EXCEPT !.pc = "task", !.list = AssignedRows(TaskSeq)])
  /\ UNCHANGED <<now, tasks, timers, pending, calls, running, reqs, sent, lastOp, flexStore, process, lastReply, lastTick>>

\* autoProcessInternalAssignedTasks: the store rejects findByStatus; the error
\* leaves autoProcessAssignedTasks and is caught and logged by tick().
TickListFails(t) ==
  /\ BagIn(t, ticks)
  /\ t.pc = "list"
  /\ TickEnd(t)
  /\ lastTick' = [lastTick EXCEPT !.outcome = "storefails", !.done = TRUE]
  /\ UNCHANGED <<now, tasks, timers, pending, calls, reqs, sent, lastOp, flexStore, process, lastReply>>

\* The handler goes on with the rows it was given.
TickRun(t) ==
  /\ BagIn(t, ticks)
  /\ t.pc = "task"
  /\ TickContinue(t, t.list, SchedState)
  /\ UNCHANGED <<now, tasks, calls, reqs, sent, lastOp, flexStore, process, lastReply>>

\* The greeting's sendSMS resolves: on false `continue`, on true
\* greetingSentAt = new Date() and setGreetingSent is called.
TickGreetSend(t, ok) ==
  /\ BagIn(t, ticks)
  /\ t.pc = "greetSend"
  /\ IF ok
       THEN /\ TickMove(t, [t EXCEPT !.pc = "greetWrite", !.at = now])
            /\ UNCHANGED <<running, lastTick, timers, pending>>
       ELSE TickContinue(t, Tail(t.list), SchedState)
  /\ UNCHANGED <<now, tasks, calls, reqs, sent, lastOp, flexStore, process, lastReply>>

\* setGreetingSent's UPDATE, the row read back, scheduleInternalInactivityTimers,
\* and the loop goes on.
TickGreetWrite(t) ==
  /\ BagIn(t, ticks)
  /\ t.pc = "greetWrite"
  /\ LET id == Head(t.list).id
         row == SetGreetingRow(tasks[id], t.at, now)
     IN /\ tasks' = [tasks EXCEPT ![id] = row]
        /\ sent' = [sent EXCEPT ![id] = NoneSent]
        /\ TickContinue(t, Tail(t.list), ScheduleInternal(SchedState, id, row, now))
  /\ UNCHANGED <<now, calls, reqs, lastOp, flexStore, process, lastReply>>

\* ---------------------------------------------------- flex pipeline
\* What tasks.list returns in autoProcessFlexAssignedTasks when the provider
\* holds one assigned task with a conversation and an accepted reservation;
\* `existing` is filled by findByTaskSid.
FlexConversation(sid) == "CH1"
ProviderTasks ==
  <<[id |-> "WT1", conversationSid |-> FlexConversation("WT1"),
     customerAddress |-> "+5511", customerFrom |-> "", workerSid |-> "WK1",
     workerName |-> "Ana", existing |-> NoFlexRow]>>

\* An upsert that replaces the whole row: the fault C38 has to detect.
UpsertFlexTaskReplacesRow(tbl, e, t) ==
  [tbl EXCEPT ![e.id] = [NoFlexRow EXCEPT !.exists = TRUE,
                                          !.customer_address = e.customerAddress,
                                          !.customer_from = e.customerFrom,
                                          !.worker_sid = e.workerSid,
                                          !.worker_name = e.workerName,
                                          !.created_at = t,
                                          !.updated_at = t]]

\* flexTasksRepository.upsertBaseState at wall time t: the INSERT into
\* flex_tasks (created_at kept from the row it finds, updated_at = now) ...
UpsertFlexTask(tbl, e, t) ==
  LET old == tbl[e.id]
  IN [tbl EXCEPT ![e.id] = [old EXCEPT !.exists = TRUE,
                                       !.customer_address = e.customerAddress,
                                       !.customer_from = e.customerFrom,
                                       !.worker_sid = e.workerSid,
                                       !.worker_name = e.workerName,
                                       !.created_at = IF old.exists THEN old.created_at ELSE t,
                                       !.updated_at = t]]

\* ... and the INSERT into flex_tasks_by_conversation (primary key
\* conversation_sid).
UpsertByConversation(rows, conversationSid, sid) ==
  {r \in rows : r.conversation_sid # conversationSid}
    \cup {[conversation_sid |-> conversationSid, task_sid |-> sid]}

\* flexTasksRepository.setGreetingSent
SetFlexGreeting(tbl, sid, g, t) ==
  [tbl EXCEPT ![sid] = [tbl[sid] EXCEPT !.exists = TRUE, !.greeting_sent_at = g,
                                        !.ping_sent_at = NULL, !.inactive_sent_at = NULL,
                                        !.updated_at = t]]

\* A loop that goes on to the greeting whatever existingState holds: the fault
\* C32 has to detect.
FlexBranchGreetsAgain(existing) == "greet"

\* What the loop of autoProcessFlexAssignedTasks does after the upsert, decided
\* by existingState.
FlexBranch(existing) ==
  IF existing.greeting_sent_at # NULL
    THEN IF /\ existing.last_customer_activity_at # NULL
            /\ existing.last_customer_activity_at > existing.greeting_sent_at
           THEN "cancel"
         ELSE IF existing.inactive_sent_at # NULL THEN "cancel"
         ELSE "schedule"
  ELSE "greet"

\* TasksService.scheduleFlexInactivityTimers(taskSid, greetingSentAt)
ScheduleFlex(S, sid, greetingSentAt, t) ==
  IF Has(S, sid) THEN S ELSE Schedule(S, sid, greetingSentAt, t)

\* The flex loop goes on with `list` and the scheduler as S; at the end of the
\* list autoProcessFlexAssignedTasks resolves to true and
\* autoProcessAssignedTasks returns.
FlexContinue(t, list, S) ==
  /\ SetSched(S)
  /\ IF list = <<>>
       THEN /\ TickEnd(t)
            /\ lastTick' = [lastTick EXCEPT !.flex = "true", !.done = TRUE]
       ELSE /\ TickMove(t, [t EXCEPT !.pc = "flexRead", !.list = list, !.at = NULL])
            /\ running' = running
            /\ lastTick' = lastTick

\* The provider answers tasks.list and the reservations of the task.
TickFlexTasks(t) ==
  /\ BagIn(t, ticks)
  /\ t.pc = "flex"
  /\ TickMove(t, [t EXCEPT !.pc = "flexRead", !.list = ProviderTasks])
  /\ lastTick' = [lastTick EXCEPT !.outcome = "tasks"]
  /\ UNCHANGED <<now, tasks, timers, pending, calls, running, reqs, sent, lastOp,
                 flexStore, process, lastReply>>

\* fallbackWorkerName of the loop, and `fallback` of resolveWorkerDisplayName:
\* the reservation's workerName trimmed, or 'Atendente'.
FallbackWorkerName(e) == IF Trim(e.workerName) # "" THEN Trim(e.workerName) ELSE "Atendente"

\* Whether the loop calls resolveWorkerDisplayName: no stored name, or a stored
\* name that is 'Atendente' or the fallback; always with a workerSid.
CallsResolveName(e, existing) ==
  /\ e.workerSid # ""
  /\ \/ Trim(existing.worker_name) = ""
     \/ Trim(existing.worker_name) \in {"Atendente", FallbackWorkerName(e)}

\* existingState = await flexTasksRepository.findByTaskSid(task.sid), then
\* workerName: the stored name, the fallback, the cached name, or the await of
\* workers(workerSid).fetch().
FlexRead(t) ==
  /\ BagIn(t, ticks)
  /\ t.pc = "flexRead"
  /\ LET e == Head(t.list)
         existing == flex_tasks[e.id]
         Goes(pc, workerName) ==
           TickMove(t, [t EXCEPT !.pc = pc,
                                 !.list = <<[e EXCEPT !.existing = existing,
                                                      !.workerName = workerName]>>
                                            \o Tail(t.list)])
     IN IF CallsResolveName(e, existing)
          THEN IF workerNameCache[e.workerSid] # ""
                 THEN Goes("flexUpsert", workerNameCache[e.workerSid])
                 ELSE Goes("flexFetch", FallbackWorkerName(e))
          ELSE IF Trim(existing.worker_name) = ""
                 THEN Goes("flexUpsert", FallbackWorkerName(e))
                 ELSE Goes("flexUpsert", Trim(existing.worker_name))
  /\ UNCHANGED <<now, tasks, timers, pending, calls, running, reqs, sent, lastOp, lastTick,
                 flexStore, process, lastReply>>

\* What workers(workerSid).fetch() gives: a rejection, a worker without a name
\* in its attributes or friendlyName (""), or a name.
WorkerFetchResults == {"fails", "", "Ana", "Ana Lima"}

\* resolveWorkerDisplayName's `resolved`, or the fallback in its catch.
ResolvedName(res, fallback) == IF res \in {"fails", ""} THEN fallback ELSE res

CountFetch(tw, workerSid) ==
  [tw EXCEPT !.fetches[workerSid] = IF @ < 2 THEN @ + 1 ELSE @]

\* A catch that returns the fallback without caching it: the fault C35 has to
\* detect.
FlexFetchForgetsFailure(t, res) ==
  /\ BagIn(t, ticks)
  /\ t.pc = "flexFetch"
  /\ LET e == Head(t.list)
         name == ResolvedName(res, e.workerName)
     IN /\ twilio' = CountFetch(twilio, e.workerSid)
        /\ workerNameCache' = IF res = "fails" THEN workerNameCache
                              ELSE [workerNameCache EXCEPT ![e.workerSid] = name]
        /\ TickMove(t, [t EXCEPT !.pc = "flexUpsert",
                                 !.list = <<[e EXCEPT !.workerName = name]>> \o Tail(t.list)])
  /\ UNCHANGED <<now, tasks, timers, pending, calls, running, reqs, sent, lastOp, lastTick,
                 flex_tasks, flex_tasks_by_conversation, env, process, lastReply>>

\* await workers(workerSid).fetch() settles: the name resolved, or the fallback
\* of the catch, is cached and returned.
FlexFetch(t, res) ==
  /\ BagIn(t, ticks)
  /\ t.pc = "flexFetch"
  /\ LET e == Head(t.list)
         name == ResolvedName(res, e.workerName)
     IN /\ twilio' = CountFetch(twilio, e.workerSid)
        /\ workerNameCache' = [workerNameCache EXCEPT ![e.workerSid] = name]
        /\ TickMove(t, [t EXCEPT !.pc = "flexUpsert",
                                 !.list = <<[e EXCEPT !.workerName = name]>> \o Tail(t.list)])
  /\ UNCHANGED <<now, tasks, timers, pending, calls, running, reqs, sent, lastOp, lastTick,
                 flex_tasks, flex_tasks_by_conversation, env, process, lastReply>>

\* await flexTasksRepository.upsertBaseState(...), then the branch on
\* existingState up to the next await.
FlexUpsert(t) ==
  /\ BagIn(t, ticks)
  /\ t.pc = "flexUpsert"
  /\ LET e == Head(t.list)
     IN /\ flex_tasks' = UpsertFlexTask(flex_tasks, e, now)
        /\ flex_tasks_by_conversation' =
             UpsertByConversation(flex_tasks_by_conversation, e.conversationSid, e.id)
        /\ CASE FlexBranch(e.existing) = "cancel" ->
                  FlexContinue(t, Tail(t.list), Cancel(SchedState, e.id))
             [] FlexBranch(e.existing) = "schedule" ->
                  FlexContinue(t, Tail(t.list),
                               ScheduleFlex(SchedState, e.id, e.existing.greeting_sent_at, now))
             [] OTHER ->
                  /\ TickMove(t, [t EXCEPT !.pc = "flexResolve"])
                  /\ UNCHANGED <<timers, pending, running, lastTick>>
  /\ UNCHANGED <<now, tasks, calls, reqs, sent, lastOp, flexWorld, process, lastReply>>

\* Participants of a conversation: identity, messagingBinding.address and
\* attributes ("" is absent).
Participant(identity, address, attributes) ==
  [identity |-> identity, address |-> address, attributes |-> attributes]

\* Values of a participant's attributes: absent; JSON with workerSid "WK1";
\* JSON with worker_sid " wk1 "; JSON that names WK1 in another field; text
\* that is not JSON and contains WK1.
SidJson == "{\"workerSid\":\"WK1\"}"
SidJsonLower == "{\"worker_sid\":\" wk1 \"}"
NoteJson == "{\"note\":\"WK1\"}"
NotJson == "WK1;"

\* pickWorkerSidFromAttributes(parseTaskAttributes(attributes || '{}')), "" for
\* undefined.
PickWorkerSidFromAttributes(attributes) ==
  CASE attributes = SidJson -> "WK1"
    [] attributes = SidJsonLower -> "wk1"
    [] OTHER -> ""

\* typeof rawAttrs === 'string' && rawAttrs.includes(workerSidValue)
RawIncludes(attributes, workerSidValue) ==
  /\ attributes # ""
  /\ \/ workerSidValue = ""
     \/ workerSidValue = "WK1" /\ attributes \in {SidJson, NoteJson, NotJson}

\* normalize of resolveWorkerParticipantIdentity: value?.trim().toLowerCase() ?? ''
Normalize(v) == ToLowerCase(Trim(v))

\* The first participant of the list with an identity that passes Test, 0 when
\* there is none: the `for` loops of resolveWorkerParticipantIdentity.
FirstParticipant(participants, Test(_)) ==
  LET found == {i \in 1..Len(participants) :
                  Trim(participants[i].identity) # "" /\ Test(participants[i])}
  IN IF found = {} THEN 0 ELSE CHOOSE i \in found : \A j \in found : i <= j

\* A resolution that takes the first participant that is not the customer even
\* when there are several: the fault C34 has to detect.
ResolveFirstCandidate(participants, workersid, hints) ==
  LET markers == {Normalize(hints.customerAddress), Normalize(hints.customerFrom)} \ {""}
      NotCustomer(p) == /\ Normalize(p.identity) \notin markers
                        /\ Normalize(p.address) \notin markers
      c == FirstParticipant(participants, NotCustomer)
  IN IF c # 0 THEN Trim(participants[c].identity) ELSE ""

\* resolveWorkerParticipantIdentity once participants.list has answered; "" is
\* null.
ResolveWorkerParticipantIdentity(participants, workerSid, hints) ==
  LET normalizedWorkerSid == Normalize(workerSid)
      normalizedWorkerName == Normalize(hints.workerName)
      hasWorkerSid == normalizedWorkerSid # ""
      customerMarkers ==
        {Normalize(hints.customerAddress), Normalize(hints.customerFrom)} \ {""}
      isCustomerParticipant(p) ==
        \/ Normalize(p.identity) # "" /\ Normalize(p.identity) \in customerMarkers
        \/ Normalize(p.address) # "" /\ Normalize(p.address) \in customerMarkers
      BySid(p) == hasWorkerSid /\ Normalize(p.identity) = normalizedWorkerSid
      ByName(p) == Normalize(p.identity) = normalizedWorkerName
      ByAttrs(p) ==
        /\ PickWorkerSidFromAttributes(p.attributes) # ""
        /\ Normalize(PickWorkerSidFromAttributes(p.attributes)) = normalizedWorkerSid
      ByRaw(p) == RawIncludes(p.attributes, workerSid)
      NotCustomer(p) == ~isCustomerParticipant(p)
      Identity(i) == Trim(participants[i].identity)
      bySid == FirstParticipant(participants, BySid)
      byName == IF normalizedWorkerName # "" THEN FirstParticipant(participants, ByName) ELSE 0
      byAttrs == IF hasWorkerSid THEN FirstParticipant(participants, ByAttrs) ELSE 0
      byRaw == IF hasWorkerSid THEN FirstParticipant(participants, ByRaw) ELSE 0
      candidateIdentities ==
        {i \in 1..Len(participants) :
           Identity(i) # "" /\ NotCustomer(participants[i])}
  IN IF bySid # 0 THEN Identity(bySid)
     ELSE IF byName # 0 THEN Identity(byName)
     ELSE IF byAttrs # 0 THEN Identity(byAttrs)
     ELSE IF byRaw # 0 THEN Identity(byRaw)
     ELSE IF Cardinality(candidateIdentities) = 1
       THEN Identity(CHOOSE i \in candidateIdentities : TRUE)
     ELSE ""

\* The hints autoProcessFlexAssignedTasks passes for a task of the list.
Hints(e) ==
  [workerName |-> e.workerName, customerAddress |-> e.customerAddress,
   customerFrom |-> e.customerFrom]

\* await resolveWorkerParticipantIdentity(...): participants.list answers or
\* rejects (the catch returns null); without an identity the loop goes on to
\* the next task.
FlexResolve(t, listed) ==
  /\ BagIn(t, ticks)
  /\ t.pc = "flexResolve"
  /\ LET e == Head(t.list)
         workerIdentity ==
           IF listed
             THEN ResolveWorkerParticipantIdentity(twilio.participants, e.workerSid, Hints(e))
             ELSE ""
     IN IF workerIdentity = ""
          THEN FlexContinue(t, Tail(t.list), SchedState)
          ELSE /\ TickMove(t, [t EXCEPT !.pc = "flexGreet", !.identity = workerIdentity])
               /\ UNCHANGED <<timers, pending, running, lastTick>>
  /\ UNCHANGED <<now, tasks, calls, reqs, sent, lastOp, flexStore, process, lastReply>>

\* sendConversationMessage: author?.trim() || getAutomationAuthor()
MessageAuthor(author) == IF Trim(author) # "" THEN Trim(author) ELSE AutomationAuthor

\* The provider keeps the authors of the greetings posted (the first two).
PostGreeting(tw, author) ==
  [tw EXCEPT !.greetings = IF Len(@) < 2 THEN Append(@, author) ELSE @]

\* The identities under which the operator's client joins the conversation.
OperatorIdentities == {"WK1", "agent7"}

\* The operator accepts the chat: their participant is added to the
\* conversation.
OperatorJoins(identity) ==
  /\ Len(twilio.participants) = 1
  /\ twilio' = [twilio EXCEPT !.participants = Append(@, Participant(identity, "", ""))]
  /\ UNCHANGED <<now, tasks, timers, pending, calls, running, ticks, reqs, sent, lastOp,
                 lastTick, flex_tasks, flex_tasks_by_conversation, workerNameCache, env, process,
                 lastReply>>

\* await sendConversationMessage(conversationSid, greeting, workerIdentity):
\* messages.create is accepted or rejected; a rejected message is a `continue`,
\* an accepted one goes on to greetingSentAt = new Date() and setGreetingSent.
FlexGreetSend(t, ok) ==
  /\ BagIn(t, ticks)
  /\ t.pc = "flexGreet"
  /\ IF ok
       THEN /\ twilio' = PostGreeting(twilio, MessageAuthor(t.identity))
            /\ TickMove(t, [t EXCEPT !.pc = "flexGreetWrite", !.at = now])
            /\ UNCHANGED <<timers, pending, running, lastTick>>
       ELSE /\ twilio' = twilio
            /\ FlexContinue(t, Tail(t.list), SchedState)
  /\ UNCHANGED <<now, tasks, calls, reqs, sent, lastOp, flex_tasks,
                 flex_tasks_by_conversation, workerNameCache, env, process, lastReply>>

\* setGreetingSent's UPDATE, scheduleFlexInactivityTimers, and the loop goes on.
FlexGreetWrite(t) ==
  /\ BagIn(t, ticks)
  /\ t.pc = "flexGreetWrite"
  /\ LET e == Head(t.list)
     IN /\ flex_tasks' = SetFlexGreeting(flex_tasks, e.id, t.at, now)
        /\ FlexContinue(t, Tail(t.list), ScheduleFlex(SchedState, e.id, t.at, now))
  /\ UNCHANGED <<now, tasks, calls, reqs, sent, lastOp, flex_tasks_by_conversation, flexWorld, process, lastReply>>


\* ------------------------------------------------ flex timer callbacks
\* The preconditions sendFlexPingIfInactive / sendFlexInactiveAndClose check on
\* the row they read (conversation_sid is set by every upsert).
FlexCallAllowed(kind, task) ==
  /\ task.exists
  /\ task.greeting_sent_at # NULL
  /\ IF kind = "ping" THEN task.ping_sent_at = NULL ELSE task.inactive_sent_at = NULL
  /\ ~(/\ task.last_customer_activity_at # NULL
       /\ task.last_customer_activity_at > task.greeting_sent_at)

CallMove(c, d) == calls' = (calls (-) SetToBag({c})) (+) SetToBag({d})
CallDone(c) == calls' = calls (-) SetToBag({c})

\* const task = await flexTasksRepository.findByTaskSid(taskSid), and the
\* returns that follow.
FlexCallRead(c) ==
  /\ BagIn(c, calls)
  /\ c.id \in FlexSids
  /\ c.pc = "read"
  /\ IF FlexCallAllowed(c.kind, flex_tasks[c.id])
       THEN CallMove(c, [c EXCEPT !.pc = "resolve", !.task = flex_tasks[c.id]])
       ELSE CallDone(c)
  /\ UNCHANGED <<now, tasks, timers, pending, running, ticks, reqs, sent, lastOp, flexStore,
                 process, lastReply, lastTick>>

\* await resolveWorkerParticipantIdentity(...) with the columns of the row.
FlexCallResolve(c, listed) ==
  /\ BagIn(c, calls)
  /\ c.id \in FlexSids
  /\ c.pc = "resolve"
  /\ LET workerIdentity ==
           IF listed
             THEN ResolveWorkerParticipantIdentity(
                    twilio.participants, c.task.worker_sid,
                    [workerName |-> c.task.worker_name,
                     customerAddress |-> c.task.customer_address,
                     customerFrom |-> c.task.customer_from])
             ELSE ""
     IN IF workerIdentity = ""
          THEN CallDone(c)
          ELSE CallMove(c, [c EXCEPT !.pc = "send", !.identity = workerIdentity])
  /\ UNCHANGED <<now, tasks, timers, pending, running, ticks, reqs, sent, lastOp, flexStore,
                 process, lastReply, lastTick>>

\* The provider keeps the authors of the pings and closure messages posted
\* (the first two of each).
PostFlexMessage(tw, kind, author) ==
  IF kind = "ping"
    THEN [tw EXCEPT !.pings = IF Len(@) < 2 THEN Append(@, author) ELSE @]
    ELSE [tw EXCEPT !.closures = IF Len(@) < 2 THEN Append(@, author) ELSE @]

\* await sendConversationMessage(...): `if (!ok) return`, else new Date().
FlexCallSend(c, ok) ==
  /\ BagIn(c, calls)
  /\ c.id \in FlexSids
  /\ c.pc = "send"
  /\ IF ok
       THEN /\ twilio' = PostFlexMessage(twilio, c.kind, MessageAuthor(c.identity))
            /\ CallMove(c, [c EXCEPT !.pc = "mark", !.at = now])
       ELSE /\ twilio' = twilio
            /\ CallDone(c)
  /\ UNCHANGED <<now, tasks, timers, pending, running, ticks, reqs, sent, lastOp, flex_tasks,
                 flex_tasks_by_conversation, workerNameCache, env, process, lastReply,
                 lastTick>>

\* Where sendFlexInactiveAndClose goes after step `pc`: the conversation is
\* closed unless TASKS_FLEX_CLOSE_CONVERSATION is 'false', the task completed
\* unless TASKS_FLEX_COMPLETE_TASK is 'false', and then cancel.
TeardownAfter(pc) ==
  IF pc = "mark" /\ env.TASKS_FLEX_CLOSE_CONVERSATION # "false" THEN "close"
  ELSE IF pc \in {"mark", "close"} /\ env.TASKS_FLEX_COMPLETE_TASK # "false" THEN "complete"
  ELSE "cancel"

\* sendFlexInactiveAndClose goes on after step c.pc: to the next await, or to
\* taskInactivityScheduler.cancel(taskSid) and its end.
TeardownContinue(c) ==
  IF TeardownAfter(c.pc) = "cancel"
    THEN /\ SetSched(Cancel(SchedState, c.id))
         /\ CallDone(c)
    ELSE /\ CallMove(c, [c EXCEPT !.pc = TeardownAfter(c.pc)])
         /\ UNCHANGED <<timers, pending>>

\* A teardown that cancels right after the write: the fault C33 has to detect.
FlexCallMarkThenCancel(c) ==
  /\ BagIn(c, calls)
  /\ c.id \in FlexSids
  /\ c.pc = "mark"
  /\ flex_tasks' = [flex_tasks EXCEPT ![c.id] =
                      [@ EXCEPT !.exists = TRUE, !.inactive_sent_at = c.at, !.updated_at = now]]
  /\ SetSched(Cancel(SchedState, c.id))
  /\ CallDone(c)
  /\ UNCHANGED <<now, tasks, running, ticks, reqs, sent, lastOp, flex_tasks_by_conversation,
                 flexWorld, process, lastReply, lastTick>>

\* await flexTasksRepository.markPingSent(taskSid, new Date()), or
\* markInactiveSent(taskSid, now) and what follows up to the next await.
FlexCallMark(c) ==
  /\ BagIn(c, calls)
  /\ c.id \in FlexSids
  /\ c.pc = "mark"
  /\ IF c.kind = "ping"
       THEN /\ flex_tasks' = [flex_tasks EXCEPT ![c.id] =
                                [@ EXCEPT !.exists = TRUE, !.ping_sent_at = c.at,
                                          !.updated_at = now]]
            /\ CallDone(c)
            /\ UNCHANGED <<timers, pending>>
       ELSE /\ flex_tasks' = [flex_tasks EXCEPT ![c.id] =
                                [@ EXCEPT !.exists = TRUE, !.inactive_sent_at = c.at,
                                          !.updated_at = now]]
            /\ TeardownContinue(c)
  /\ UNCHANGED <<now, tasks, running, ticks, reqs, sent, lastOp, flex_tasks_by_conversation,
                 flexWorld, process, lastReply, lastTick>>

\* await closeConversation(conversation_sid): conversations(sid).update is
\* accepted or rejected, the rejection caught and logged.
FlexCallClose(c, ok) ==
  /\ BagIn(c, calls)
  /\ c.id \in FlexSids
  /\ c.pc = "close"
  /\ twilio' = [twilio EXCEPT !.closeCalls = IF @ < 2 THEN @ + 1 ELSE @,
                              !.conversation = IF ok THEN "closed" ELSE @]
  /\ TeardownContinue(c)
  /\ UNCHANGED <<now, tasks, running, ticks, reqs, sent, lastOp, flex_tasks,
                 flex_tasks_by_conversation, workerNameCache, env, process, lastReply,
                 lastTick>>

\* await completeTaskRouterTask(taskSid): tasks(sid).update is accepted or
\* rejected, the rejection caught and logged; then cancel.
FlexCallComplete(c, ok) ==
  /\ BagIn(c, calls)
  /\ c.id \in FlexSids
  /\ c.pc = "complete"
  /\ twilio' = [twilio EXCEPT !.completeCalls = IF @ < 2 THEN @ + 1 ELSE @,
                              !.task = IF ok THEN "completed" ELSE @]
  /\ TeardownContinue(c)
  /\ UNCHANGED <<now, tasks, running, ticks, reqs, sent, lastOp, flex_tasks,
                 flex_tasks_by_conversation, workerNameCache, env, process, lastReply,
                 lastTick>>

FlexCallbacks ==
  \/ \E h \in pending : Fire(h)
  \/ \E c \in BagToSet(calls) : FlexCallRead(c)
  \/ \E c \in BagToSet(calls), listed \in BOOLEAN : FlexCallResolve(c, listed)
  \/ \E c \in BagToSet(calls), ok \in BOOLEAN : FlexCallSend(c, ok)
  \/ \E c \in BagToSet(calls) : FlexCallMark(c)
  \/ \E c \in BagToSet(calls), ok \in BOOLEAN : FlexCallClose(c, ok)
  \/ \E c \in BagToSet(calls), ok \in BOOLEAN : FlexCallComplete(c, ok)

\* ------------------------------------------------ inbound webhook
\* Values of Author in the webhook's body ("" is absent).
Authors ==
  {"", " ", "+5511", " +5511 ", "whatsapp:+5511", "Ana", " Ana ", "WK1", "System", "other"}

\* A classification that takes every author for the customer: the fault C30
\* has to detect.
IsCustomerAuthorAlways(state, trimmedAuthor) == TRUE

\* markFlexCustomerActivityByConversationSid: the checks on trimmedAuthor (not
\* empty) against the stored state; TRUE when none of them returns. The
\* customer columns are compared trimmed, the worker columns as stored.
IsCustomerAuthor(state, trimmedAuthor) ==
  LET customerAddress == Trim(state.customer_address)
      customerFrom == Trim(state.customer_from)
      hasKnownCustomer == customerAddress # "" \/ customerFrom # ""
  IN IF hasKnownCustomer
       THEN ~(trimmedAuthor # customerAddress /\ trimmedAuthor # customerFrom)
       ELSE /\ ~(trimmedAuthor = AutomationAuthor)
            /\ ~(state.worker_name # "" /\ trimmedAuthor = state.worker_name)
            /\ ~(state.worker_sid # "" /\ trimmedAuthor = state.worker_sid)

\* POST /tasks/twilio/inbound with ConversationSid:
\* markFlexCustomerActivityByConversationSid trims the author, returns when it
\* is empty, and calls findByConversationSid.
ReqMarkByConversation(author) ==
  /\ MayStart
  /\ IF Trim(author) = ""
       THEN /\ reqs' = reqs
            /\ lastReply' = Twiml
       ELSE /\ reqs' = reqs (+) SetToBag({[Req("conversation", "", "lookup", NULL, FALSE)
                                             EXCEPT !.author = author]})
            /\ lastReply' = lastReply
  /\ UNCHANGED <<now, tasks, timers, pending, calls, running, ticks, sent, lastOp, flexStore,
                 process, lastTick>>

\* findByConversationSid of the webhook's conversation: the row of
\* flex_tasks_by_conversation and then the row of flex_tasks, or null.
FindByConversationSid(conversationSid) ==
  {row.task_sid : row \in {x \in flex_tasks_by_conversation :
                            /\ x.conversation_sid = conversationSid
                            /\ flex_tasks[x.task_sid].exists}}

\* findByConversationSid returns: without a state, or with an author that is
\* not the customer, the sink returns; else it takes new Date() and calls
\* markCustomerActivity.
FlexLookup(r) ==
  /\ BagIn(r, reqs)
  /\ r.pc = "lookup"
  /\ LET found == FindByConversationSid(FlexConversation("WT1"))
     IN IF found = {}
          THEN /\ ReqDone(r)
               /\ lastReply' = Twiml
          ELSE \E sid \in found :
                 IF IsCustomerAuthor(flex_tasks[sid], Trim(r.author))
                   THEN /\ ReqMove(r, [r EXCEPT !.id = sid, !.pc = "flexActivity", !.at = now])
                        /\ lastReply' = lastReply
                   ELSE /\ ReqDone(r)
                        /\ lastReply' = Twiml
  /\ UNCHANGED <<now, tasks, timers, pending, calls, running, ticks, sent, lastOp, flexStore,
                 process, lastTick>>

\* flexTasksRepository.markCustomerActivity's UPDATE, then cancel.
FlexActivityWrite(r) ==
  /\ BagIn(r, reqs)
  /\ r.pc = "flexActivity"
  /\ flex_tasks' = [flex_tasks EXCEPT ![r.id] =
                      [@ EXCEPT !.exists = TRUE, !.last_customer_activity_at = r.at,
                                !.updated_at = now]]
  /\ SetSched(Cancel(SchedState, r.id))
  /\ ReqDone(r)
  /\ lastReply' = Twiml
  /\ UNCHANGED <<now, tasks, calls, running, ticks, sent, lastOp, flex_tasks_by_conversation, flexWorld,
                 process, lastTick>>

\* A webhook whose sink's error reaches the framework: the fault C29 has to
\* detect.
ReqInboundFailsPropagates(r) ==
  /\ BagIn(r, reqs)
  /\ r.op \in {"contact", "conversation"}
  /\ ReqDone(r)
  /\ lastReply' = Reply(500, "error", TRUE)
  /\ UNCHANGED <<now, tasks, timers, pending, calls, running, ticks, sent, lastOp, flexStore,
                 process, lastTick>>

\* The store rejects the call a sink of the webhook is waiting for: the sink
\* throws, the route's `catch {}` swallows the error and the route returns.
ReqInboundFails(r) ==
  /\ BagIn(r, reqs)
  /\ r.op \in {"contact", "conversation"}
  /\ ReqDone(r)
  /\ lastReply' = Reply(200, "twiml", TRUE)
  /\ UNCHANGED <<now, tasks, timers, pending, calls, running, ticks, sent, lastOp, flexStore,
                 process, lastTick>>

\* POST /tasks/twilio/inbound with From, and the store rejects
\* findAssignedByCustomerContact.
ReqMarkByContactFails ==
  /\ MayStart
  /\ lastReply' = Reply(200, "twiml", TRUE)
  /\ UNCHANGED <<now, tasks, timers, pending, calls, running, ticks, reqs, sent, lastOp,
                 flexStore, process, lastTick>>

\* ------------------------------------------------------ specification
Init ==
  /\ now = 0
  /\ tasks = [id \in TaskIds |-> NoRow]
  /\ timers = [id \in SchedIds |-> NoEntry]
  /\ pending = {}
  /\ calls = EmptyBag
  /\ running = FALSE
  /\ ticks = EmptyBag
  /\ reqs = EmptyBag
  /\ sent = [id \in TaskIds |-> NoneSent]
  /\ lastOp = [id \in TaskIds |-> NoOp]
  /\ lastTick = NoTick
  /\ twilio = NoTwilio
  /\ workerNameCache = NoCache
  /\ env = NoEnv
  /\ flex_tasks = [sid \in FlexSids |-> NoFlexRow]
  /\ flex_tasks_by_conversation = {}
  /\ intervalHandle = TRUE
  /\ shutdown = "none"
  /\ unhandled = FALSE
  /\ lastReply = NoReply

Kinds == {"ping", "inactive"}
Callbacks ==
  \/ \E h \in pending : Fire(h)
  \/ \E c \in BagToSet(calls) : CallRead(c)
  \/ \E c \in BagToSet(calls), ok \in BOOLEAN : CallSend(c, ok)
  \/ \E c \in BagToSet(calls) : CallWrite(c)

Handlers ==
  \/ \E id \in TaskIds : Create(id)
  \/ \E id \in TaskIds : ReqAssign("assign", id, FALSE)
  \/ \E id \in TaskIds, greet \in BOOLEAN : ReqAssign("handoff", id, greet)
  \/ \E r \in BagToSet(reqs) : ReqAssignWrite(r)
  \/ \E r \in BagToSet(reqs), ok \in BOOLEAN : ReqHandoffSend(r, ok)
  \/ \E id \in TaskIds : ReqRegisterGreeting(id)
  \/ \E r \in BagToSet(reqs) : ReqGreetWrite(r)
  \/ \E id \in TaskIds : ReqMarkActivity(id)
  \/ \E customerContact \in Contacts : ReqMarkByContact(customerContact)
  \/ \E r \in BagToSet(reqs) : ReqActivityWrite(r)

InternalTick ==
  \/ \E t \in BagToSet(ticks) : TickList(t)
  \/ \E t \in BagToSet(ticks) : TickRun(t)
  \/ \E t \in BagToSet(ticks), ok \in BOOLEAN : TickGreetSend(t, ok)
  \/ \E t \in BagToSet(ticks) : TickGreetWrite(t)

\* Before the first greeting nothing is armed and no handler compares two
\* times, so the engine's clock is started by the first greeting.
EngineClock ==
  /\ \E id \in TaskIds : tasks[id].greeting_sent_at # NULL
  /\ AdvanceClock

\* The engine with TASKS_AUTO_SOURCE=internal.
Next ==
  \/ EngineClock
  \/ Callbacks
  \/ Handlers
  \/ TickFire("internal")
  \/ InternalTick

Spec == Init /\ [][Next]_vars

\* The reconciliation loop under every value of TASKS_AUTO_SOURCE and every
\* answer of the provider, with tasks created and assigned meanwhile.
LoopNext ==
  \/ \E id \in TaskIds : Create(id)
  \/ \E id \in TaskIds : ReqAssign("assign", id, FALSE)
  \/ \E r \in BagToSet(reqs) : ReqAssignWrite(r)
  \/ \E raw \in EnvSources : TickFire(raw)
  \/ TickDrop
  \/ \E t \in BagToSet(ticks), outcome \in FlexOutcomes : TickFlex(t, outcome)
  \/ \E t \in BagToSet(ticks) : TickListFails(t)
  \/ InternalTick

LoopSpec == Init /\ [][LoopNext]_vars

\* The scheduler under any sequence of schedule and cancel calls, with the
\* runtime firing due timeouts and the callbacks starting.
SchedNext ==
  \/ \E id \in TaskIds, i \in 1..Len(Instants) : SchedSchedule(id, Instants[i])
  \/ \E id \in TaskIds : SchedCancel(id)
  \/ \E h \in pending : Fire(h)
  \/ \E c \in BagToSet(calls) : CallRead(c)
  \/ AdvanceClock

SchedSpec == Init /\ [][SchedNext]_vars

\* The scheduler as above, with the store failing under the callbacks, as long
\* as the process lives.
FailingStoreNext ==
  \/ shutdown = "none" /\ SchedNext
  \/ \E c \in BagToSet(calls), mode \in RejectionModes : CallReadFails(c, mode)

FailingStoreSpec == Init /\ [][FailingStoreNext]_vars

\* The happy path of one handoff: the task is created, assigned, then handed
\* off with sendGreeting = true while the auto processor runs; no customer
\* activity, every send is accepted, and every handler finishes its I/O before
\* the next instant of the clock.
HappyAssign(id) ==
  /\ tasks[id].status = "open"
  /\ reqs = EmptyBag
  /\ ReqAssign("assign", id, FALSE)

HappyHandoff(id) ==
  /\ tasks[id].status = "assigned"
  /\ tasks[id].greeting_sent_at = NULL
  /\ reqs = EmptyBag
  /\ ReqAssign("handoff", id, TRUE)

HappyReqs ==
  \/ \E r \in BagToSet(reqs) : ReqAssignWrite(r)
  \/ \E r \in BagToSet(reqs) : ReqHandoffSend(r, TRUE)
  \/ \E r \in BagToSet(reqs) : ReqGreetWrite(r)

HappyTick ==
  \/ \E t \in BagToSet(ticks) : TickList(t)
  \/ \E t \in BagToSet(ticks) : TickRun(t)
  \/ \E t \in BagToSet(ticks) : TickGreetSend(t, TRUE)
  \/ \E t \in BagToSet(ticks) : TickGreetWrite(t)

HappyCallbacks ==
  \/ \E h \in pending : Fire(h)
  \/ \E c \in BagToSet(calls) : CallRead(c)
  \/ \E c \in BagToSet(calls) : CallSend(c, TRUE)
  \/ \E c \in BagToSet(calls) : CallWrite(c)

\* The runtime runs a timeout when it is due, and no handler is still waiting
\* on its I/O when the clock reaches the next instant.
HappyClock ==
  /\ ~\E h \in pending : h.due <= now
  /\ InFlight = 0
  /\ EngineClock

HappyNext ==
  \/ \E id \in TaskIds : Create(id)
  \/ \E id \in TaskIds : HappyAssign(id)
  \/ \E id \in TaskIds : HappyHandoff(id)
  \/ HappyReqs
  \/ TickFire("internal")
  \/ HappyTick
  \/ HappyCallbacks
  \/ HappyClock

HappySpec ==
  /\ Init /\ [][HappyNext]_vars
  /\ WF_vars(HappyReqs)
  /\ WF_vars(HappyTick)
  /\ WF_vars(HappyCallbacks)
  /\ SF_vars(HappyClock)

\* The process restarted in the middle of an epoch: the store holds the task
\* assigned and greeted at g, without customer activity and without
\* inactive_sent_at, with or without ping_sent_at; the scheduler is empty and
\* the wall clock is at or after g (g early enough for g + 30s to be an instant
\* the clock reaches).
GreetedRow(g, p) ==
  [NoRow EXCEPT !.status = "assigned", !.customer_contact = CustomerContact,
                !.operator = TRUE, !.assigned_at = g,
                !.greeting_sent_at = g, !.ping_sent_at = p,
                !.updated_at = IF p = NULL THEN g ELSE p]

RestartInit ==
  /\ \E i \in 1..Len(Instants), j \in 1..Len(Instants) :
       /\ i <= j
       /\ Instants[i] + InactiveDelayMs <= Instants[Len(Instants)]
       /\ now = Instants[j]
       /\ \E p \in {NULL, Instants[i] + PingDelayMs} :
            /\ p <= now
            /\ tasks = [id \in TaskIds |-> GreetedRow(Instants[i], p)]
  /\ timers = [id \in SchedIds |-> NoEntry]
  /\ pending = {}
  /\ calls = EmptyBag
  /\ running = FALSE
  /\ ticks = EmptyBag
  /\ reqs = EmptyBag
  /\ sent = [id \in TaskIds |-> NoneSent]
  /\ lastOp = [id \in TaskIds |-> NoOp]
  /\ lastTick = NoTick
  /\ twilio = NoTwilio
  /\ workerNameCache = NoCache
  /\ env = NoEnv
  /\ flex_tasks = [sid \in FlexSids |-> NoFlexRow]
  /\ flex_tasks_by_conversation = {}
  /\ intervalHandle = TRUE
  /\ shutdown = "none"
  /\ unhandled = FALSE
  /\ lastReply = NoReply

\* The tick over a task that holds its greeting: the list and the loop.
RestartTick ==
  \/ \E t \in BagToSet(ticks) : TickList(t)
  \/ \E t \in BagToSet(ticks) : TickRun(t)

RestartNext ==
  \/ TickFire("internal")
  \/ RestartTick
  \/ HappyCallbacks
  \/ HappyClock

RestartSpec ==
  /\ RestartInit /\ [][RestartNext]_vars
  /\ WF_vars(TickFire("internal"))
  /\ WF_vars(RestartTick)
  /\ WF_vars(HappyCallbacks)
  /\ SF_vars(HappyClock)

\* The flex pipeline over a provider that lists the same task at every tick:
\* TASKS_AUTO_SOURCE selects the flex pipeline, wall time passes, and nothing
\* but the ticks touches the store (the callbacks of the timers the ticks arm
\* are left to the engine).
FlexTick ==
  \/ \E t \in BagToSet(ticks) : TickFlexTasks(t)
  \/ \E t \in BagToSet(ticks) : FlexRead(t)
  \/ \E t \in BagToSet(ticks) : FlexUpsert(t)
  \/ \E t \in BagToSet(ticks), res \in WorkerFetchResults : FlexFetch(t, res)
  \/ \E t \in BagToSet(ticks), listed \in BOOLEAN : FlexResolve(t, listed)
  \/ \E t \in BagToSet(ticks), ok \in BOOLEAN : FlexGreetSend(t, ok)
  \/ \E t \in BagToSet(ticks) : FlexGreetWrite(t)

FlexNext ==
  \/ \E raw \in {r \in EnvSources : RunsFlex(ResolveSource(r))} : TickFire(raw)
  \/ TickDrop
  \/ FlexTick
  \/ \E identity \in OperatorIdentities : OperatorJoins(identity)
  \/ AdvanceClock

FlexSpec == Init /\ [][FlexNext]_vars

\* One handoff with a provider that accepts or rejects each message: the task
\* is created, assigned, and greeted by the tick or by POST /tasks/:id/handoff;
\* no customer activity.
FlakyNext ==
  \/ \E id \in TaskIds : Create(id)
  \/ \E id \in TaskIds : HappyAssign(id)
  \/ \E id \in TaskIds : HappyHandoff(id)
  \/ \E r \in BagToSet(reqs) : ReqAssignWrite(r)
  \/ \E r \in BagToSet(reqs), ok \in BOOLEAN : ReqHandoffSend(r, ok)
  \/ \E r \in BagToSet(reqs) : ReqGreetWrite(r)
  \/ TickFire("internal")
  \/ InternalTick
  \/ Callbacks
  \/ HappyClock

FlakySpec == Init /\ [][FlakyNext]_vars

\* The two setGreetingSent of the repositories applied to any row: the row of
\* `tasks` in any status with any of its timestamps set (at 0) or null, the row
\* of `flex_tasks` likewise; the write happens at the second instant.
Stamps == {NULL, Instants[1]}

RowSamples ==
  {[NoRow EXCEPT !.status = st, !.customer_contact = CustomerContact,
                 !.operator = (st # "open"), !.assigned_at = a,
                 !.greeting_sent_at = g, !.ping_sent_at = p, !.inactive_sent_at = i,
                 !.last_customer_activity_at = l, !.closed_at = c,
                 !.close_reason = IF c = NULL THEN "none" ELSE "inactivity",
                 !.updated_at = Instants[1]] :
     st \in {"open", "assigned", "closed"}, a \in Stamps, g \in Stamps, p \in Stamps,
     i \in Stamps, l \in Stamps, c \in Stamps}

FlexRowSamples ==
  {[NoFlexRow EXCEPT !.exists = TRUE, !.greeting_sent_at = g, !.ping_sent_at = p,
                     !.inactive_sent_at = i, !.last_customer_activity_at = l,
                     !.created_at = Instants[1], !.updated_at = Instants[1]] :
     g \in Stamps, p \in Stamps, i \in Stamps, l \in Stamps}

GreetingWriteInit ==
  /\ now = Instants[2]
  /\ tasks \in [TaskIds -> RowSamples]
  /\ twilio = NoTwilio
  /\ workerNameCache = NoCache
  /\ env = NoEnv
  /\ flex_tasks \in [FlexSids -> FlexRowSamples]
  /\ timers = [id \in SchedIds |-> NoEntry]
  /\ pending = {}
  /\ calls = EmptyBag
  /\ running = FALSE
  /\ ticks = EmptyBag
  /\ reqs = EmptyBag
  /\ sent = [id \in TaskIds |-> NoneSent]
  /\ lastOp = [id \in TaskIds |-> NoOp]
  /\ lastTick = NoTick
  /\ flex_tasks_by_conversation = {}
  /\ intervalHandle = TRUE
  /\ shutdown = "none"
  /\ unhandled = FALSE
  /\ lastReply = NoReply

\* tasksRepository.setGreetingSent(id, new Date())
WriteGreeting(id) ==
  /\ tasks' = [tasks EXCEPT ![id] = SetGreetingRow(@, now, now)]
  /\ UNCHANGED <<now, timers, pending, calls, running, ticks, reqs, sent, lastOp, lastTick,
                 flexStore, process, lastReply>>

\* flexTasksRepository.setGreetingSent(taskSid, new Date())
WriteFlexGreeting(sid) ==
  /\ flex_tasks' = SetFlexGreeting(flex_tasks, sid, now, now)
  /\ UNCHANGED <<now, tasks, timers, pending, calls, running, ticks, reqs, sent, lastOp,
                 lastTick, flex_tasks_by_conversation, flexWorld, process, lastReply>>

GreetingWriteNext ==
  \/ \E id \in TaskIds : WriteGreeting(id)
  \/ \E sid \in FlexSids : WriteFlexGreeting(sid)

GreetingWriteSpec == GreetingWriteInit /\ [][GreetingWriteNext]_vars

\* The inbound webhook over one internal task and one flex task, both greeted
\* at the first instant with their timers armed; the flex row holds any
\* combination of customer and worker columns, the webhooks arrive one after
\* the other with any author, and the store answers or rejects each call of
\* the sinks.
FlexGreetedSamples ==
  {[NoFlexRow EXCEPT !.exists = TRUE, !.customer_address = ca, !.customer_from = cf,
                     !.worker_sid = ws, !.worker_name = wn,
                     !.greeting_sent_at = Instants[1], !.created_at = Instants[1],
                     !.updated_at = Instants[1]] :
     ca \in {"", " ", "+5511", " +5511 "}, cf \in {"", "whatsapp:+5511"}, ws \in {"", "WK1"},
     wn \in {"", "Ana"}}

BothArmed ==
  LET S0 == [timers |-> [id \in SchedIds |-> NoEntry], pending |-> {}]
      S1 == Schedule(S0, TaskSeq[1], Instants[1], Instants[1])
  IN Schedule(S1, ProviderTasks[1].id, Instants[1], Instants[1])

InboundInit ==
  /\ now = Instants[1]
  /\ tasks = [id \in TaskIds |-> GreetedRow(Instants[1], NULL)]
  /\ twilio = NoTwilio
  /\ workerNameCache = NoCache
  /\ env = NoEnv
  /\ flex_tasks \in [FlexSids -> FlexGreetedSamples]
  /\ flex_tasks_by_conversation =
       {[conversation_sid |-> ProviderTasks[1].conversationSid,
         task_sid |-> ProviderTasks[1].id]}
  /\ timers = BothArmed.timers
  /\ pending = BothArmed.pending
  /\ calls = EmptyBag
  /\ running = FALSE
  /\ ticks = EmptyBag
  /\ reqs = EmptyBag
  /\ sent = [id \in TaskIds |-> NoneSent]
  /\ lastOp = [id \in TaskIds |-> NoOp]
  /\ lastTick = NoTick
  /\ intervalHandle = TRUE
  /\ shutdown = "none"
  /\ unhandled = FALSE
  /\ lastReply = NoReply

InboundArrives ==
  /\ reqs = EmptyBag
  /\ \/ \E customerContact \in Contacts : ReqMarkByContact(customerContact)
     \/ ReqMarkByContactFails
     \/ \E author \in Authors : ReqMarkByConversation(author)

InboundNext ==
  \/ InboundArrives
  \/ \E r \in BagToSet(reqs) : ReqActivityWrite(r)
  \/ \E r \in BagToSet(reqs) : FlexLookup(r)
  \/ \E r \in BagToSet(reqs) : FlexActivityWrite(r)
  \/ \E r \in BagToSet(reqs) : ReqInboundFails(r)
  \/ AdvanceClock

InboundSpec == InboundInit /\ [][InboundNext]_vars

\* The From sink of the webhook over three internal tasks, each open or
\* assigned and greeted (its timers armed), of either customer; webhooks of
\* either customer arrive and overlap.
ContactTaskIds == {"t1", "t2", "t3"}

ContactRows ==
  {CreateRow(Instants[1])}
    \cup {[GreetedRow(Instants[1], NULL) EXCEPT !.customer_contact = c, !.updated_at = u] :
            c \in Contacts, u \in {Instants[1], Instants[2]}}

ContactArmed(rows) ==
  LET ids == DOMAIN rows \cup FlexSids
      S0 == [timers |-> [id \in ids |-> NoEntry], pending |-> {}]
      S(id) == Schedule(S0, id, rows[id].greeting_sent_at, rows[id].updated_at)
      armed == {id \in DOMAIN rows : rows[id].status = "assigned"}
  IN [timers |-> [id \in ids |-> IF id \in armed THEN S(id).timers[id] ELSE NoEntry],
      pending |-> UNION {S(id).pending : id \in armed}]

ContactInit ==
  /\ now = Instants[2]
  /\ tasks \in [ContactTaskIds -> ContactRows]
  /\ timers = ContactArmed(tasks).timers
  /\ pending = ContactArmed(tasks).pending
  /\ twilio = NoTwilio
  /\ workerNameCache = NoCache
  /\ env = NoEnv
  /\ flex_tasks = [sid \in FlexSids |-> NoFlexRow]
  /\ flex_tasks_by_conversation = {}
  /\ calls = EmptyBag
  /\ running = FALSE
  /\ ticks = EmptyBag
  /\ reqs = EmptyBag
  /\ sent = [id \in TaskIds |-> NoneSent]
  /\ lastOp = [id \in TaskIds |-> NoOp]
  /\ lastTick = NoTick
  /\ intervalHandle = TRUE
  /\ shutdown = "none"
  /\ unhandled = FALSE
  /\ lastReply = NoReply

ContactNext ==
  \/ \E customerContact \in Contacts : ReqMarkByContact(customerContact)
  \/ \E r \in BagToSet(reqs) : ReqActivityWrite(r)
  \/ AdvanceClock

ContactSpec == ContactInit /\ [][ContactNext]_vars

\* resolveWorkerParticipantIdentity as a function of its inputs: a tick of the
\* flex pipeline stands before the call for one task, with any list of up to
\* MaxParticipants of the participants below and any reservation and customer
\* hints; participants.list answers or rejects.
MaxParticipants == 3

ParticipantSamples ==
  {Participant(" wk1 ", "", ""),          \* the worker sid as identity
   Participant("Ana", "", ""),            \* the worker name as identity
   Participant("agent7", "", SidJson),    \* attributes with workerSid
   Participant("agent8", "", SidJsonLower),
   Participant("agent9", "", NoteJson),   \* attributes that only contain the sid
   Participant("bot", "", ""),            \* neither the worker nor the customer
   Participant("+5511", "", ""),          \* the customer by identity
   Participant("guest", "+5511", ""),     \* the customer by binding address
   Participant("", "+5511", ""),          \* no identity
   Participant("", "", SidJson)}

ParticipantLists ==
  UNION {[1..n -> ParticipantSamples] : n \in 0..MaxParticipants}

ProviderTaskSamples ==
  {[ProviderTasks[1] EXCEPT !.workerSid = ws, !.workerName = wn, !.customerAddress = ca] :
     ws \in {"", "WK1"}, wn \in {"Atendente", "Ana"}, ca \in {"", "+5511"}}

ResolveInit ==
  /\ now = Instants[1]
  /\ tasks = [id \in TaskIds |-> NoRow]
  /\ timers = [id \in SchedIds |-> NoEntry]
  /\ pending = {}
  /\ calls = EmptyBag
  /\ running = TRUE
  /\ \E e \in ProviderTaskSamples :
       ticks = SetToBag({Tick("flexResolve", "flex", <<e>>, NULL)})
  /\ reqs = EmptyBag
  /\ sent = [id \in TaskIds |-> NoneSent]
  /\ lastOp = [id \in TaskIds |-> NoOp]
  /\ lastTick = [NoTick EXCEPT !.raw = "flex", !.source = "flex", !.outcome = "tasks",
                               !.done = FALSE]
  /\ \E participants \in ParticipantLists :
       twilio = [NoTwilio EXCEPT !.participants = participants]
  /\ workerNameCache = NoCache
  /\ env = NoEnv
  /\ flex_tasks = UpsertFlexTask([sid \in FlexSids |-> NoFlexRow], ProviderTasks[1], now)
  /\ flex_tasks_by_conversation =
       {[conversation_sid |-> ProviderTasks[1].conversationSid,
         task_sid |-> ProviderTasks[1].id]}
  /\ intervalHandle = TRUE
  /\ shutdown = "none"
  /\ unhandled = FALSE
  /\ lastReply = NoReply

ResolveNext ==
  \E t \in BagToSet(ticks), listed \in BOOLEAN : FlexResolve(t, listed)

ResolveSpec == ResolveInit /\ [][ResolveNext]_vars

\* The timer callbacks of one flex task greeted at the first instant, the
\* operator in the conversation, under any setting of the two teardown
\* variables; the provider accepts or rejects each call.
EnvFlags == {"", "false", "FALSE"}

TeardownInit ==
  /\ now = Instants[1]
  /\ tasks = [id \in TaskIds |-> NoRow]
  /\ LET S == Schedule([timers |-> [id \in SchedIds |-> NoEntry], pending |-> {}],
                       ProviderTasks[1].id, Instants[1], Instants[1])
     IN timers = S.timers /\ pending = S.pending
  /\ calls = EmptyBag
  /\ running = FALSE
  /\ ticks = EmptyBag
  /\ reqs = EmptyBag
  /\ sent = [id \in TaskIds |-> NoneSent]
  /\ lastOp = [id \in TaskIds |-> NoOp]
  /\ lastTick = NoTick
  /\ twilio = [NoTwilio EXCEPT !.participants = Append(@, Participant("agent7", "", "")),
                               !.greetings = <<"agent7">>]
  /\ workerNameCache = [NoCache EXCEPT ![ProviderTasks[1].workerSid] = ProviderTasks[1].workerName]
  /\ env \in [{"TASKS_FLEX_CLOSE_CONVERSATION", "TASKS_FLEX_COMPLETE_TASK"} -> EnvFlags]
  /\ flex_tasks = SetFlexGreeting(
                    UpsertFlexTask([sid \in FlexSids |-> NoFlexRow], ProviderTasks[1], now),
                    ProviderTasks[1].id, now, now)
  /\ flex_tasks_by_conversation =
       {[conversation_sid |-> ProviderTasks[1].conversationSid,
         task_sid |-> ProviderTasks[1].id]}
  /\ intervalHandle = TRUE
  /\ shutdown = "none"
  /\ unhandled = FALSE
  /\ lastReply = NoReply

TeardownNext ==
  \/ FlexCallbacks
  \/ AdvanceClock

TeardownSpec == TeardownInit /\ [][TeardownNext]_vars

\* The flex pipeline after a restart of the process: the store holds no row or
\* any row of the task, created at the first instant; the scheduler is empty
\* and the ticks run at the second instant or later.
UpsertInit ==
  /\ now = Instants[2]
  /\ tasks = [id \in TaskIds |-> NoRow]
  /\ timers = [id \in SchedIds |-> NoEntry]
  /\ pending = {}
  /\ calls = EmptyBag
  /\ running = FALSE
  /\ ticks = EmptyBag
  /\ reqs = EmptyBag
  /\ sent = [id \in TaskIds |-> NoneSent]
  /\ lastOp = [id \in TaskIds |-> NoOp]
  /\ lastTick = NoTick
  /\ twilio = NoTwilio
  /\ workerNameCache = NoCache
  /\ env = NoEnv
  /\ flex_tasks \in [FlexSids -> FlexRowSamples \cup {NoFlexRow}]
  /\ flex_tasks_by_conversation =
       {[conversation_sid |-> FlexConversation(sid), task_sid |-> sid] :
          sid \in {x \in FlexSids : flex_tasks[x].exists}}
  /\ intervalHandle = TRUE
  /\ shutdown = "none"
  /\ unhandled = FALSE
  /\ lastReply = NoReply

UpsertSpec == UpsertInit /\ [][FlexNext]_vars

\* ------------------------------------------------------------ shutdown
\* stopTasksAutoProcessor: `if (!intervalHandle) return; clearInterval(...);
\* intervalHandle = null`; the value of intervalHandle it leaves.
StopTasksAutoProcessor(handle) == IF ~handle THEN handle ELSE FALSE

\* SIGINT / SIGTERM arrives: the handler calls stopTasksAutoProcessor() and
\* waits for disconnectDatabase().
Signal ==
  /\ shutdown = "none"
  /\ intervalHandle' = StopTasksAutoProcessor(intervalHandle)
  /\ shutdown' = "disconnecting"
  /\ UNCHANGED <<now, tasks, timers, pending, calls, running, ticks, reqs, sent, lastOp,
                 lastTick, flexStore, unhandled, lastReply>>

\* disconnectDatabase() resolves and the handler calls process.exit(0): the
\* runtime and all it holds in memory are gone.
Exit ==
  /\ shutdown = "disconnecting"
  /\ shutdown' = "exited"
  /\ timers' = [id \in SchedIds |-> NoEntry]
  /\ pending' = {}
  /\ calls' = EmptyBag
  /\ ticks' = EmptyBag
  /\ reqs' = EmptyBag
  /\ running' = FALSE
  /\ UNCHANGED <<now, tasks, sent, lastOp, lastTick, flexStore, intervalHandle, unhandled,
                 lastReply>>

\* The interval calls tick() as long as it has not been cleared.
IntervalTick ==
  /\ intervalHandle
  /\ shutdown # "exited"
  /\ TickFire("internal")

\* The runtime runs a due timeout as long as the process lives.
TimeoutFires ==
  /\ shutdown # "exited"
  /\ \E h \in pending : Fire(h)

\* The happy path of one handoff while no signal has arrived.
Serving ==
  /\ shutdown = "none"
  /\ \/ \E id \in TaskIds : Create(id)
     \/ \E id \in TaskIds : HappyAssign(id)
     \/ \E id \in TaskIds : HappyHandoff(id)
     \/ HappyReqs
     \/ HappyTick
     \/ \E c \in BagToSet(calls) : CallRead(c)
     \/ \E c \in BagToSet(calls) : CallSend(c, TRUE)
     \/ \E c \in BagToSet(calls) : CallWrite(c)
     \/ HappyClock

\* The process from start to exit: it serves one handoff, a signal arrives at
\* any moment, and between the call of stopTasksAutoProcessor and process.exit
\* the runtime goes on running what is due.
ShutdownNext ==
  \/ Serving
  \/ IntervalTick
  \/ TimeoutFires
  \/ Signal
  \/ Exit

ShutdownSpec == Init /\ [][ShutdownNext]_vars

\* -------------------------------------------------------------- claims
\* Timer callbacks of `id` at position `pc` in the bag b.
CallsAt(b, id, pc) ==
  LET S == {c \in BagToSet(b) : c.id = id /\ c.pc = pc}
  IN BagCardinality([c \in S |-> CopiesIn(c, b)])

\* In this step a ping or a closure message for `id` is delivered.
MessageSent(id) == CallsAt(calls', id, "write") > CallsAt(calls, id, "write")

\* In this step a timer callback of `id` starts.
CallbackStarted(id) == CallsAt(calls', id, "read") > CallsAt(calls, id, "read")

\* In this step the closure send of a callback of `id` fails.
ClosureSendFailed(id) ==
  \E c \in BagToSet(calls) :
    /\ c.id = id /\ c.kind = "inactive" /\ c.pc = "send"
    /\ calls' = calls (-) SetToBag({c})

\* The closure of `id` is still owed: assigned, greeted, no closure message
\* marked, no customer activity after the greeting.
ClosureOwed(id) ==
  /\ tasks[id].status = "assigned"
  /\ tasks[id].greeting_sent_at # NULL
  /\ tasks[id].inactive_sent_at = NULL
  /\ ~ActivityAfterGreeting(tasks[id])

\* Nothing will send the closure of `id` and no tick will re-arm it: no closure
\* timeout is armed, no closure callback is in flight, and the scheduler holds
\* an entry, so scheduleInternalInactivityTimers returns at has().
Wedged(id) ==
  /\ ClosureOwed(id)
  /\ Has(SchedState, id)
  /\ ~\E h \in pending : h.id = id /\ h.kind = "inactive"
  /\ ~\E c \in BagToSet(calls) : c.id = id /\ c.kind = "inactive"

\* C1: within one greeting epoch (from one write of greeting_sent_at to the
\* next) at most one ping and at most one closure message are sent.
C1_OnePingOneClosurePerEpoch ==
  \A id \in TaskIds : sent[id].ping <= 1 /\ sent[id].inactive <= 1

\* C2: once customer activity later than the greeting is stored for a task,
\* no ping and no closure message is sent for it, a callback that had already
\* started included.
C2_NoMessageAfterActivity ==
  [][\A id \in TaskIds : ActivityAfterGreeting(tasks[id]) => ~MessageSent(id)]_vars

\* C3: a task closed for inactivity has greeting_sent_at <= inactive_sent_at =
\* closed_at and no customer activity later than its greeting.
C3_ClosedForInactivityIsConsistent ==
  \A id \in TaskIds :
    (tasks[id].status = "closed" /\ tasks[id].close_reason = "inactivity") =>
      /\ tasks[id].greeting_sent_at # NULL
      /\ tasks[id].inactive_sent_at # NULL
      /\ tasks[id].greeting_sent_at <= tasks[id].inactive_sent_at
      /\ tasks[id].inactive_sent_at = tasks[id].closed_at
      /\ ~ActivityAfterGreeting(tasks[id])

\* C4: when the closure send fails in the inactivity callback of a greeted task
\* without customer activity, the task is not wedged: a closure timeout is
\* armed, a closure callback is in flight, or the next tick re-arms the timers.
C4_FailedClosureNotWedged ==
  [][\A id \in TaskIds : (ClosureOwed(id) /\ ClosureSendFailed(id)) => ~Wedged(id)']_vars

\* C5: executions of tick() never overlap: at most one is in progress, `running`
\* is set exactly while one is, and a call of tick() made meanwhile starts none.
C5_TicksNeverOverlap ==
  /\ BagCardinality(ticks) <= 1
  /\ running <=> (ticks # EmptyBag)

\* a call of tick() returned at `if (running) return` while an execution was in
\* progress across an await.
C5_Witness ==
  /\ lastTick.dropped
  /\ running
  /\ \E t \in BagToSet(ticks) : t.pc = "greetWrite"

\* C6: TASKS_AUTO_SOURCE=internal never calls the flex pipeline, =flex never
\* calls the internal pipeline, and auto or unset calls the flex pipeline first
\* and the internal pipeline only after the flex pipeline resolved to false.
C6_SourceModes ==
  /\ lastTick.raw = "internal" /\ lastTick.source # "none" => lastTick.flex = "notrun"
  /\ lastTick.raw = "flex" =>
       /\ ~lastTick.internal
       /\ lastTick.done => lastTick.flex # "notrun"
  /\ lastTick.raw \in {"", "auto"} /\ lastTick.source # "none" =>
       /\ lastTick.internal => lastTick.flex = "false"
       /\ lastTick.done => lastTick.flex # "notrun"
       /\ lastTick.done /\ lastTick.flex = "false" => lastTick.internal

\* an execution in auto mode, unset variable, is over: the flex pipeline
\* resolved to false and the internal pipeline ran.
C6_Witness ==
  /\ lastTick.raw = ""
  /\ lastTick.source = "auto"
  /\ lastTick.done
  /\ lastTick.flex = "false"
  /\ lastTick.internal

\* C7: in auto mode, when the provider returns zero tasks the flex pipeline
\* reports that it did no work and the internal pipeline runs in the same tick.
C7_ZeroFlexTasksFallsThrough ==
  (lastTick.source = "auto" /\ lastTick.outcome = "zero") =>
    /\ lastTick.flex = "false"
    /\ lastTick.internal

\* C8: in auto mode, when the provider is not usable (credentials missing,
\* workspace unresolved, or a listing call fails) the internal pipeline still
\* runs in the same tick.
C8_UnusableProviderFallsThrough ==
  (/\ lastTick.source = "auto"
   /\ lastTick.outcome \in {"nocreds", "noworkspace", "listfails", "reservationsfail"}) =>
    lastTick.internal

\* C9: after cancel(taskId) returned, no callback of that task starts until
\* schedule is called again for it, whatever deadlines had been armed.
C9_NoCallbackAfterCancel ==
  [][\A id \in TaskIds : lastOp[id].op = "cancel" => ~CallbackStarted(id)]_vars

\* cancel cleared an armed timeout whose deadline has now passed, and no
\* callback is in flight.
C9_Witness ==
  \E id \in TaskIds :
    /\ lastOp[id].op = "cancel"
    /\ \E h \in lastOp[id].cleared : h.due <= now
    /\ calls = EmptyBag

\* C10: a callback that reads the row after activity later than the greeting
\* was stored sends nothing and writes nothing; and after markCustomerActivity
\* no ping and no closure message is ever sent in that epoch.
C10_ActivityStopsCallbacks ==
  [][\A id \in TaskIds :
       ActivityAfterGreeting(tasks[id]) =>
         /\ CallsAt(calls', id, "send") <= CallsAt(calls, id, "send")
         /\ ~MessageSent(id)
         /\ tasks'[id].ping_sent_at = tasks[id].ping_sent_at
         /\ tasks'[id].inactive_sent_at = tasks[id].inactive_sent_at]_vars

\* In this step greeting_sent_at of `id` is written with a new value: a
\* greeting epoch starts.
EpochStarts(id) ==
  /\ tasks'[id].greeting_sent_at # NULL
  /\ tasks'[id].greeting_sent_at # tasks[id].greeting_sent_at

\* After this step the timeouts of `id` armed in the runtime are those of the
\* epoch the row holds: greeting_sent_at + 5s and + 30s, or at once when that
\* is past.
ArmedForEpoch(id) ==
  LET g == tasks'[id].greeting_sent_at
  IN {h \in pending' : h.id = id} =
       {Timeout(id, "ping", Max(now', g + PingDelayMs)),
        Timeout(id, "inactive", Max(now', g + InactiveDelayMs))}

\* C11: when registerOperatorGreeting or startOperatorHandoff writes a new
\* greeting_sent_at, also on a task that has a scheduler entry from an earlier
\* epoch, the armed deadlines are those of the new epoch.
C11_NewEpochRearms ==
  [][\A id \in TaskIds : EpochStarts(id) => ArmedForEpoch(id)]_vars

\* Handlers that hold a delivered greeting of `id` they have not yet stored: a
\* tick after its sendSMS, a handoff after its sendSMS.
GreetingsHeld(tk, rq, id) ==
  LET T == {t \in BagToSet(tk) : t.pc = "greetWrite" /\ Head(t.list).id = id}
      R == {r \in BagToSet(rq) : r.id = id /\ r.pc = "greet" /\ r.greet}
  IN BagCardinality([t \in T |-> CopiesIn(t, tk)])
       + BagCardinality([r \in R |-> CopiesIn(r, rq)])

\* In this step a greeting SMS of `id` is delivered.
GreetingDelivered(id) == GreetingsHeld(ticks', reqs', id) > GreetingsHeld(ticks, reqs, id)

\* C12: a task that is assigned and then handed off with sendGreeting = true
\* while the auto processor runs gets one greeting SMS: no greeting is delivered
\* when one was already delivered by the tick or by the HTTP command.
C12_OneGreetingPerHandoff ==
  [][\A id \in TaskIds :
       GreetingDelivered(id) =>
         /\ tasks[id].greeting_sent_at = NULL
         /\ GreetingsHeld(ticks, reqs, id) = 0]_vars

\* The end of the happy path for `id`: the ping was sent and marked no earlier
\* than 5s after the greeting, the task was closed for inactivity no earlier
\* than 30s after it, and the scheduler holds no entry.
HappyEnd(id) ==
  /\ tasks[id].status = "closed"
  /\ tasks[id].close_reason = "inactivity"
  /\ tasks[id].ping_sent_at # NULL
  /\ tasks[id].ping_sent_at >= tasks[id].greeting_sent_at + PingDelayMs
  /\ tasks[id].closed_at # NULL
  /\ tasks[id].closed_at >= tasks[id].greeting_sent_at + InactiveDelayMs
  /\ tasks[id].inactive_sent_at = tasks[id].closed_at
  /\ ~Has(SchedState, id)

EntryArmed(id) == ~Has(SchedState, id) /\ timers'[id] # NoEntry

\* C14: after a restart in the middle of an epoch the first tick arms the
\* timeouts max(0, g + 5s - now) and max(0, g + 30s - now) from now; a ping is
\* sent only when the row holds no ping_sent_at; and the task is closed for
\* inactivity no earlier than g + 30s.
C14_RestartMidEpoch ==
  /\ [][\A id \in TaskIds :
          /\ EntryArmed(id) =>
               LET g == tasks[id].greeting_sent_at
               IN /\ timers'[id].pingTimeout = now + Max(0, g + PingDelayMs - now)
                  /\ timers'[id].inactiveTimeout = now + Max(0, g + InactiveDelayMs - now)
                  /\ EntryTimeouts([timers |-> timers', pending |-> pending'], id)
                       \subseteq pending'
          /\ (MessageSent(id) /\ sent'[id].ping > sent[id].ping) =>
               tasks[id].ping_sent_at = NULL]_vars
  /\ \A id \in TaskIds :
       (tasks[id].status = "assigned") ~>
         (/\ tasks[id].status = "closed"
          /\ tasks[id].close_reason = "inactivity"
          /\ tasks[id].closed_at >= tasks[id].greeting_sent_at + InactiveDelayMs)

\* restarted 5s after the greeting with no ping marked: the overdue ping was
\* sent at once, and the task was closed at g + 30s.
C14_Witness ==
  \E id \in TaskIds :
    /\ tasks[id].status = "closed"
    /\ tasks[id].greeting_sent_at = 0
    /\ tasks[id].ping_sent_at = PingDelayMs
    /\ tasks[id].closed_at = InactiveDelayMs
    /\ sent[id] = [ping |-> 1, inactive |-> 1]

\* C15: schedule computes both delays from the greeting timestamp and not from
\* the arm time: max(0, greetingSentAt + 5s - now) and max(0, greetingSentAt +
\* 30s - now); a greeting at exactly now - 5s gives a ping delay of 0, and the
\* ping delay never exceeds the inactivity delay.
C15_DelaysAnchoredToGreeting ==
  \A id \in TaskIds :
    lastOp[id].op = "schedule" =>
      LET g == lastOp[id].greetingSentAt
          t == lastOp[id].at
          pingDelay == timers[id].pingTimeout - t
          inactiveDelay == timers[id].inactiveTimeout - t
      IN /\ pingDelay = (IF g + 5000 - t > 0 THEN g + 5000 - t ELSE 0)
         /\ inactiveDelay = (IF g + 30000 - t > 0 THEN g + 30000 - t ELSE 0)
         /\ (g = t - 5000 => pingDelay = 0)
         /\ pingDelay <= inactiveDelay

\* schedule was called exactly 5s after the greeting: the ping is due at once
\* and the closure 25s later.
C15_Witness ==
  \E id \in TaskIds :
    /\ lastOp[id].op = "schedule"
    /\ lastOp[id].greetingSentAt = lastOp[id].at - 5000
    /\ timers[id].pingTimeout = lastOp[id].at
    /\ timers[id].inactiveTimeout = lastOp[id].at + 25000

\* C16: after any sequence of schedule and cancel calls at most one (ping,
\* inactive) pair is armed per task id, and every armed timeout is one the
\* scheduler map refers to.
C16_OnePairPerTask ==
  \A id \in TaskIds :
    LET armed == {h \in pending : h.id = id}
    IN /\ armed \subseteq EntryTimeouts(SchedState, id)
       /\ \A k \in Kinds : Cardinality({h \in armed : h.kind = k}) <= 1

\* schedule replaced an entry whose two timeouts were still armed: they are
\* cleared and the new pair is armed.
C16_Witness ==
  \E id \in TaskIds :
    /\ lastOp[id].op = "schedule"
    /\ Cardinality(lastOp[id].cleared) = 2
    /\ lastOp[id].cleared \cap pending = {}
    /\ Cardinality({h \in pending : h.id = id}) = 2

\* The timeouts of `id` armed in P, each with the time it fires at from wall
\* time t on (an overdue timeout fires at once).
FiringTimes(P, id, t) ==
  {[h EXCEPT !.due = Max(h.due, t)] : h \in {x \in P : x.id = id}}

\* This step is a call of schedule on `id` while has(id) is true, with the
\* greetingSentAt of the schedule call that made the entry.
ScheduledAgain(id) ==
  /\ Has(SchedState, id)
  /\ lastOp[id].op = "schedule"
  /\ lastOp'[id].op = "schedule"
  /\ lastOp'[id].greetingSentAt = lastOp[id].greetingSentAt
  /\ calls' = calls
  /\ now' = now

AssignedAndGreeted ==
  {id \in TaskIds : tasks[id].status = "assigned" /\ tasks[id].greeting_sent_at # NULL}

\* C18: the scheduler map never holds more entries than there are assigned and
\* greeted tasks for a tick to observe: no entry stays for a task that was
\* closed or is no longer listed.
C18_EntriesBoundedByGreetedTasks ==
  Cardinality({id \in TaskIds : Has(SchedState, id)}) <= Cardinality(AssignedAndGreeted)
\* A tick at the upsert of a provider task whose row it found greeted: an
\* earlier tick went through the whole of its work on the task.
FoundGreeted(t) ==
  /\ t.pc = "flexUpsert"
  /\ Head(t.list).existing.greeting_sent_at # NULL

\* C19: a tick that runs after an earlier tick completed its work on the same
\* provider task, over provider and store data nothing else has changed, writes
\* nothing: tasks, flex_tasks and flex_tasks_by_conversation stay as they are.
C19_SecondTickWritesNothing ==
  [][(\E t \in BagToSet(ticks) : FoundGreeted(t)) => UNCHANGED <<tasks, flexStore>>]_vars

\* The dispatcher has been stopped by the signal handler.
Stopped == shutdown # "none"

\* A call of tick() goes past `if (running) return`.
TickStarted == ~running /\ running'

\* C20: on shutdown, once the dispatcher is stopped the scheduler holds no
\* entry, no new tick starts and no ping or inactivity callback fires.
C20_ShutdownQuiesces ==
  [][/\ Stopped' => \A id \in SchedIds : timers'[id] = NoEntry
     /\ Stopped => /\ ~TickStarted
                   /\ \A id \in TaskIds : ~CallbackStarted(id)]_vars

\* The last execution of tick() ended on an error thrown by
\* autoProcessAssignedTasks: the provider or the store rejected a call.
TickThrew ==
  /\ lastTick.done
  /\ lastTick.flex = "threw" \/ lastTick.outcome = "storefails"

\* C21: whatever autoProcessAssignedTasks throws, the dispatcher goes on: the
\* running flag is back to false and the interval is still set, so the next
\* call of tick() goes past its guard.
C21_ErrorDoesNotStopDispatcher ==
  TickThrew => ~TickSkips(running) /\ intervalHandle

\* The internal pipeline ran over an assigned task and ended on a rejected
\* findByStatus.
C21_Witness ==
  /\ TickThrew
  /\ lastTick.outcome = "storefails"
  /\ lastTick.internal
  /\ \E id \in TaskIds : tasks[id].status = "assigned"

\* A callback of `id` ends on a rejected store read.
CallbackFailed(id) ==
  \E c \in BagToSet(calls), mode \in RejectionModes : c.id = id /\ CallReadFails(c, mode)

\* C22: a ping or inactivity callback that fails is contained by the
\* scheduler: no rejection is left unhandled, and the timeouts still armed for
\* the task stay armed.
C22_CallbackFailureContained ==
  [][\A id \in TaskIds :
       CallbackFailed(id) =>
         /\ ~unhandled'
         /\ \A h \in pending : h.id = id => h \in pending']_vars

\* The marks of a task's epoch.
EpochMarks(row) ==
  [greeting_sent_at |-> row.greeting_sent_at, ping_sent_at |-> row.ping_sent_at,
   inactive_sent_at |-> row.inactive_sent_at, status |-> row.status,
   closed_at |-> row.closed_at]

\* In this step the ping or closure send of a callback of `id` fails.
CallbackSendFailed(id) ==
  \E c \in BagToSet(calls) : c.id = id /\ CallSend(c, FALSE)

\* In this step the greeting send of the tick for `id` fails.
TickGreetingFailed(id) ==
  \E t \in BagToSet(ticks) :
    t.pc = "greetSend" /\ Head(t.list).id = id /\ TickGreetSend(t, FALSE)

\* C23: a failed send of the greeting (by the tick), the ping or the closure
\* leaves the epoch marks of the task as they are and is followed by no write;
\* after a failed greeting of the tick no scheduler entry is created and the
\* task is still one the next tick greets.
C23_FailedSendMutatesNothing ==
  [][\A id \in TaskIds :
       /\ CallbackSendFailed(id) =>
            /\ EpochMarks(tasks'[id]) = EpochMarks(tasks[id])
            /\ CallsAt(calls', id, "write") = CallsAt(calls, id, "write")
       /\ TickGreetingFailed(id) =>
            /\ EpochMarks(tasks'[id]) = EpochMarks(tasks[id])
            /\ timers'[id] = timers[id]
            /\ ~GreetingDelivered(id)
            /\ tasks'[id].greeting_sent_at = NULL => LoopBranch(tasks'[id]) = "greet"]_vars

\* The ping callback ran at its deadline and its send failed: the timeout is
\* spent, no callback is in flight, no ping was delivered and the task is still
\* assigned without ping_sent_at.
C23_Witness ==
  \E id \in TaskIds :
    /\ tasks[id].status = "assigned"
    /\ tasks[id].greeting_sent_at # NULL
    /\ tasks[id].ping_sent_at = NULL
    /\ now >= tasks[id].greeting_sent_at + PingDelayMs
    /\ Has(SchedState, id)
    /\ Timeout(id, "ping", timers[id].pingTimeout) \notin pending
    /\ CallsAt(calls, id, "read") + CallsAt(calls, id, "send") + CallsAt(calls, id, "write") = 0
    /\ sent[id].ping = 0

\* In this step the greeting SMS of a startOperatorHandoff of `id` fails.
HandoffSendFailed(id) ==
  \E r \in BagToSet(reqs) :
    r.id = id /\ r.op = "handoff" /\ r.greet /\ ReqHandoffSend(r, FALSE)

\* In this step a startOperatorHandoff of `id` whose greeting SMS was accepted
\* returns.
HandoffSucceeded(id) ==
  \E r \in BagToSet(reqs) :
    r.id = id /\ r.op = "handoff" /\ r.greet /\ r.pc = "greet" /\ ReqGreetWrite(r)

\* C24: POST /tasks/:id/handoff with sendGreeting = true whose SMS fails
\* answers with an error, leaves greeting_sent_at, ping_sent_at and
\* inactive_sent_at as they are and creates no scheduler entry; when the SMS is
\* accepted the call returns with greeting_sent_at set and an entry for the task.
C24_HandoffGreetingAllOrNothing ==
  [][\A id \in TaskIds :
       /\ HandoffSendFailed(id) =>
            /\ lastReply' = BadRequest
            /\ tasks'[id].greeting_sent_at = tasks[id].greeting_sent_at
            /\ tasks'[id].ping_sent_at = tasks[id].ping_sent_at
            /\ tasks'[id].inactive_sent_at = tasks[id].inactive_sent_at
            /\ timers'[id] = timers[id]
            /\ ~GreetingDelivered(id)
       /\ HandoffSucceeded(id) =>
            /\ lastReply' = Ok
            /\ tasks'[id].greeting_sent_at # NULL
            /\ timers'[id] # NoEntry]_vars

\* A handoff whose greeting failed has returned: the task is assigned, without
\* greeting and without entry, and the answer was an error.
C24_Witness ==
  \E id \in TaskIds :
    /\ lastReply = BadRequest
    /\ reqs = EmptyBag
    /\ tasks[id].status = "assigned"
    /\ tasks[id].greeting_sent_at = NULL
    /\ ~Has(SchedState, id)

\* C25: assigned_at is written by the first assignment of a task and never
\* changes afterwards, whatever assign and startOperatorHandoff calls follow or
\* overlap.
C25_AssignedAtWrittenOnce ==
  [][\A id \in TaskIds :
       tasks[id].assigned_at # NULL => tasks'[id].assigned_at = tasks[id].assigned_at]_vars

\* The place of a status on open -> assigned -> closed ("none": no row yet).
StatusRank(status) ==
  CASE status = "none" -> 0
    [] status = "open" -> 1
    [] status = "assigned" -> 2
    [] status = "closed" -> 3

\* C26: the status of a task only moves forward along open -> assigned ->
\* closed; once the task is closed no operation changes its status.
C26_StatusOnlyMovesForward ==
  [][\A id \in TaskIds :
       StatusRank(tasks'[id].status) >= StatusRank(tasks[id].status)]_vars

\* A mark of the epoch is set only with the greeting, and not before it.
MarkAfterGreeting(row, mark) ==
  mark # NULL => row.greeting_sent_at # NULL /\ row.greeting_sent_at <= mark

\* C27: in every state of a task, ping_sent_at or inactive_sent_at set implies
\* greeting_sent_at set and not later than them, and status closed implies
\* closed_at and close_reason set.
C27_RowInvariants ==
  \A id \in TaskIds :
    /\ MarkAfterGreeting(tasks[id], tasks[id].ping_sent_at)
    /\ MarkAfterGreeting(tasks[id], tasks[id].inactive_sent_at)
    /\ tasks[id].status = "closed" =>
         tasks[id].closed_at # NULL /\ tasks[id].close_reason # "none"

\* C28: every write of greeting_sent_at, in `tasks` and in `flex_tasks`, sets
\* ping_sent_at and inactive_sent_at to null in the same write and leaves
\* last_customer_activity_at, status and closed_at as they are.
C28_GreetingWriteResetsMarks ==
  [][/\ \A id \in TaskIds :
          tasks'[id].greeting_sent_at # tasks[id].greeting_sent_at =>
            /\ tasks'[id].ping_sent_at = NULL
            /\ tasks'[id].inactive_sent_at = NULL
            /\ tasks'[id].last_customer_activity_at = tasks[id].last_customer_activity_at
            /\ tasks'[id].status = tasks[id].status
            /\ tasks'[id].closed_at = tasks[id].closed_at
     /\ \A sid \in FlexSids :
          flex_tasks'[sid].greeting_sent_at # flex_tasks[sid].greeting_sent_at =>
            /\ flex_tasks'[sid].ping_sent_at = NULL
            /\ flex_tasks'[sid].inactive_sent_at = NULL
            /\ flex_tasks'[sid].last_customer_activity_at
                 = flex_tasks[sid].last_customer_activity_at]_vars

\* Both tables hold a greeting written at the second instant; the row of
\* `tasks` is closed with customer activity recorded, the row of `flex_tasks`
\* has customer activity recorded.
C28_Witness ==
  /\ \E id \in TaskIds :
       /\ tasks[id].greeting_sent_at = Instants[2]
       /\ tasks[id].status = "closed"
       /\ tasks[id].closed_at = Instants[1]
       /\ tasks[id].last_customer_activity_at = Instants[1]
       /\ tasks[id].ping_sent_at = NULL
  /\ \E sid \in FlexSids :
       /\ flex_tasks[sid].greeting_sent_at = Instants[2]
       /\ flex_tasks[sid].last_customer_activity_at = Instants[1]
       /\ flex_tasks[sid].inactive_sent_at = NULL

\* C29: the inbound webhook always answers with success and the body
\* <Response></Response>, whatever its activity sink does: an error thrown by
\* the sink never reaches the provider.
C29_InboundAlwaysAnswersTwiml ==
  lastReply # NoReply => lastReply.status = 200 /\ lastReply.body = "twiml"

\* A sink threw on a rejected store call and the webhook has answered.
C29_Witness ==
  /\ lastReply.error
  /\ lastReply.body = "twiml"
  /\ reqs = EmptyBag

\* The authors the claim names as not the customer, compared as received
\* with the columns as stored: empty; or, with customer_address or
\* customer_from stored, equal to neither; or, with neither stored, equal to the
\* automation author, the stored worker_name or the stored worker_sid.
NotTheCustomerAsWritten(state, author) ==
  \/ author = ""
  \/ /\ state.customer_address # "" \/ state.customer_from # ""
     /\ author # state.customer_address
     /\ author # state.customer_from
  \/ /\ state.customer_address = "" /\ state.customer_from = ""
     /\ author \in {AutomationAuthor, state.worker_name, state.worker_sid}

\* The same with the author, customer_address and customer_from taken without
\* their surrounding white space.
NotTheCustomer(state, author) ==
  NotTheCustomerAsWritten(
    [state EXCEPT !.customer_address = Trim(@), !.customer_from = Trim(@)], Trim(author))

\* C30 as stated: markFlexCustomerActivityByConversationSid mutates state only
\* for a customer author: with an empty author, or (customer_address or
\* customer_from stored) an author equal to neither, or (neither stored) an
\* author equal to the automation author, the stored worker_name or the stored
\* worker_sid, last_customer_activity_at is not written and the scheduler entry
\* is left armed; otherwise last_customer_activity_at is set to now and the
\* entry is cancelled.
C30_AsWritten ==
  [][\A sid \in FlexSids :
       /\ (\/ flex_tasks'[sid].last_customer_activity_at
                # flex_tasks[sid].last_customer_activity_at
            \/ timers'[sid] # timers[sid]) =>
            \E r \in BagToSet(reqs) :
              /\ r.op = "conversation" /\ r.id = sid /\ r.pc = "flexActivity"
              /\ ~NotTheCustomerAsWritten(flex_tasks[sid], r.author)
              /\ flex_tasks'[sid].last_customer_activity_at = r.at
              /\ timers'[sid] = NoEntry
       /\ \A r \in BagToSet(reqs) :
            (r.op = "conversation" /\ r.pc = "lookup" /\ FlexLookup(r)
               /\ sid \in FindByConversationSid(FlexConversation(sid))) =>
              (~NotTheCustomerAsWritten(flex_tasks[sid], r.author)
                 <=> BagIn([r EXCEPT !.id = sid, !.pc = "flexActivity", !.at = now], reqs'))]_vars

\* C30, amended: the same with the author and the stored customer_address and
\* customer_from compared without their surrounding white space (a value that
\* is only white space counts as absent): last_customer_activity_at of the flex
\* task is written and its scheduler entry touched only by a call whose author
\* is the customer, which writes the time it took and cancels the entry; and a
\* call that found the state goes on to that write exactly when its author is
\* the customer, with the time of that moment.
C30_OnlyCustomerAuthorMutates ==
  [][\A sid \in FlexSids :
       /\ (\/ flex_tasks'[sid].last_customer_activity_at
                # flex_tasks[sid].last_customer_activity_at
            \/ timers'[sid] # timers[sid]) =>
            \E r \in BagToSet(reqs) :
              /\ r.op = "conversation" /\ r.id = sid /\ r.pc = "flexActivity"
              /\ ~NotTheCustomer(flex_tasks[sid], r.author)
              /\ flex_tasks'[sid].last_customer_activity_at = r.at
              /\ timers'[sid] = NoEntry
       /\ \A r \in BagToSet(reqs) :
            (r.op = "conversation" /\ r.pc = "lookup" /\ FlexLookup(r)
               /\ sid \in FindByConversationSid(FlexConversation(sid))) =>
              (~NotTheCustomer(flex_tasks[sid], r.author)
                 <=> BagIn([r EXCEPT !.id = sid, !.pc = "flexActivity", !.at = now], reqs'))]_vars

\* A stored customer_address of white space only, no customer_from: an author
\* that is not the automation nor the worker was taken for the customer, the
\* activity is written and the entry of the flex task is cancelled.
C30_Witness ==
  \E sid \in FlexSids :
    /\ flex_tasks[sid].customer_address = " "
    /\ flex_tasks[sid].customer_from = ""
    /\ flex_tasks[sid].last_customer_activity_at # NULL
    /\ ~Has(SchedState, sid)

\* The assigned tasks of a customer contact.
AssignedOf(customerContact) ==
  {id \in DOMAIN tasks : /\ tasks[id].status = "assigned"
                         /\ tasks[id].customer_contact = customerContact}

RuleHolds(k, p, workerSid, hints) ==
  CASE k = 1 -> workerSid # "" /\ Normalize(p.identity) = Normalize(workerSid)
    [] k = 2 -> hints.workerName # "" /\ Normalize(p.identity) = Normalize(hints.workerName)
    [] k = 3 -> /\ workerSid # ""
                /\ p.attributes \in {SidJson, SidJsonLower}
    [] k = 4 -> workerSid # "" /\ p.attributes \in {SidJson, NoteJson, NotJson}

\* The customer: identity or binding address among customerAddress, customerFrom.
IsCustomer(p, hints) ==
  \E m \in {hints.customerAddress, hints.customerFrom} \ {""} :
    Normalize(p.identity) = Normalize(m) \/ Normalize(p.address) = Normalize(m)

\* The identity the rules give in priority order, "" for not resolved.
ByPriority(participants, workerSid, hints) ==
  LET named == {i \in 1..Len(participants) : Trim(participants[i].identity) # ""}
      matching(k) == {i \in named : RuleHolds(k, participants[i], workerSid, hints)}
      rules == {k \in 1..4 : matching(k) # {}}
      others == {i \in named : ~IsCustomer(participants[i], hints)}
      first(S) == CHOOSE i \in S : \A j \in S : i <= j
  IN IF rules # {}
       THEN Trim(participants[first(matching(first(rules)))].identity)
     ELSE IF \E i \in others : others = {i}
       THEN Trim(participants[first(others)].identity)
     ELSE ""

\* C34: resolveWorkerParticipantIdentity returns the identity chosen by the
\* first matching rule in priority order (1 identity equals workerSid, 2
\* identity equals workerName, 3 parsed attributes carry a worker-sid field
\* equal to workerSid, 4 raw attributes contain workerSid, 5 the unique
\* participant that is not the customer), and not-resolved when no rule
\* matches, when rule 5 has no or several candidates, or when listing the
\* participants fails: the tick goes on to the greeting with that identity, or
\* leaves the task without one.
C34_IdentityByPriority ==
  [][\A t \in BagToSet(ticks), listed \in BOOLEAN :
       (t.pc = "flexResolve" /\ FlexResolve(t, listed)) =>
         LET e == Head(t.list)
             expected == IF listed
                           THEN ByPriority(twilio.participants, e.workerSid, Hints(e))
                           ELSE ""
         IN IF expected = ""
              THEN \A u \in BagToSet(ticks') : u.pc # "flexGreet"
              ELSE BagToSet(ticks') = {[t EXCEPT !.pc = "flexGreet", !.identity = expected]}]_vars

\* Rule 3 decided: with three participants, the first of them neither the
\* worker nor matched by a rule, the identity of the third, found by its
\* attributes, was resolved.
C34_Witness ==
  \E t \in BagToSet(ticks) :
    /\ t.pc = "flexGreet"
    /\ t.identity = "agent7"
    /\ Len(twilio.participants) = MaxParticipants
    /\ twilio.participants[1].identity = "bot"
    /\ twilio.participants[3].identity = "agent7"

\* C32: flex greeting deferral. A tick that cannot resolve the worker's
\* participant posts no greeting and leaves greeting_sent_at unset; a greeting
\* is posted only for a task without greeting_sent_at, by a tick that resolved
\* an identity, with that identity as author; the write that follows sets
\* greeting_sent_at to the time taken after the post and leaves the task with
\* its timers armed; and no second greeting is ever posted for the task.
C32_FlexGreetingDeferredThenOnce ==
  [][/\ \A t \in BagToSet(ticks) :
          (t.pc = "flexResolve"
             /\ FlexResolve(t, TRUE)
             /\ ResolveWorkerParticipantIdentity(twilio.participants, Head(t.list).workerSid,
                                                 Hints(Head(t.list))) = "") =>
            /\ twilio'.greetings = twilio.greetings
            /\ flex_tasks[Head(t.list).id].greeting_sent_at = NULL
            /\ flex_tasks'[Head(t.list).id].greeting_sent_at = NULL
            /\ \A u \in BagToSet(ticks') : u.pc \notin {"flexGreet", "flexGreetWrite"}
     /\ twilio'.greetings # twilio.greetings =>
          \E t \in BagToSet(ticks) :
            /\ t.pc = "flexGreet"
            /\ t.identity \in {Trim(twilio.participants[i].identity) :
                                  i \in 1..Len(twilio.participants)} \ {""}
            /\ twilio.greetings = <<>>
            /\ twilio'.greetings = <<t.identity>>
            /\ flex_tasks[Head(t.list).id].greeting_sent_at = NULL
            /\ BagIn([t EXCEPT !.pc = "flexGreetWrite", !.at = now], ticks')
     /\ \A t \in BagToSet(ticks) :
          (t.pc = "flexGreetWrite" /\ FlexGreetWrite(t)) =>
            /\ flex_tasks'[Head(t.list).id].greeting_sent_at = t.at
            /\ Has(SchedState', Head(t.list).id)
            /\ EntryTimeouts(SchedState', Head(t.list).id) \subseteq pending']_vars

\* The task was stored by a tick that found no worker participant; after the
\* operator joined, a later tick posted the greeting under the operator's
\* identity, wrote greeting_sent_at and armed the timers.
C32_Witness ==
  \E sid \in FlexSids :
    /\ twilio.greetings = <<"agent7">>
    /\ flex_tasks[sid].greeting_sent_at # NULL
    /\ flex_tasks[sid].created_at < flex_tasks[sid].greeting_sent_at
    /\ Has(SchedState, sid)
    /\ ticks = EmptyBag

CloseEnabled == env.TASKS_FLEX_CLOSE_CONVERSATION # "false"
CompleteEnabled == env.TASKS_FLEX_COMPLETE_TASK # "false"

\* An inactivity callback of the task that has passed its write ends in this
\* step.
TeardownEnds(sid) ==
  \E c \in BagToSet(calls) :
    /\ c.kind = "inactive" /\ c.id = sid /\ c.pc \in {"mark", "close", "complete"}
    /\ CopiesIn(c, calls') < CopiesIn(c, calls)
    /\ BagCardinality(calls') < BagCardinality(calls)

\* C33: flex inactivity teardown order. inactive_sent_at is written only after
\* the closure message was posted, with the time taken after the post; the
\* conversation is closed only after that write and only unless
\* TASKS_FLEX_CLOSE_CONVERSATION is "false"; the task is completed only after
\* the close (when enabled) and only unless TASKS_FLEX_COMPLETE_TASK is
\* "false"; the entry is cancelled only after the enabled calls were made; a
\* callback that wrote inactive_sent_at always ends with the entry cancelled,
\* whether the close and complete calls succeeded or not, and inactive_sent_at
\* once written stays.
C33_FlexTeardownOrder ==
  [][\A sid \in FlexSids :
       /\ flex_tasks'[sid].inactive_sent_at # flex_tasks[sid].inactive_sent_at =>
            /\ flex_tasks[sid].inactive_sent_at = NULL
            /\ twilio.closures # <<>>
            /\ twilio.closeCalls = 0 /\ twilio.completeCalls = 0
            /\ \E c \in BagToSet(calls) :
                 /\ c.kind = "inactive" /\ c.id = sid /\ c.pc = "mark"
                 /\ flex_tasks'[sid].inactive_sent_at = c.at
       /\ twilio'.closeCalls # twilio.closeCalls =>
            /\ CloseEnabled
            /\ flex_tasks[sid].inactive_sent_at # NULL
            /\ twilio.completeCalls = 0
            /\ Has(SchedState, sid)
       /\ twilio'.completeCalls # twilio.completeCalls =>
            /\ CompleteEnabled
            /\ flex_tasks[sid].inactive_sent_at # NULL
            /\ CloseEnabled => twilio.closeCalls > 0
            /\ Has(SchedState, sid)
       /\ (Has(SchedState, sid) /\ ~Has(SchedState', sid)) =>
            /\ flex_tasks'[sid].inactive_sent_at # NULL
            /\ CloseEnabled => twilio'.closeCalls > 0
            /\ CompleteEnabled => twilio'.completeCalls > 0
       /\ TeardownEnds(sid) =>
            /\ ~Has(SchedState', sid)
            /\ EntryTimeouts(SchedState, sid) \cap pending' = {}
            /\ flex_tasks'[sid].inactive_sent_at # NULL
            /\ CloseEnabled <=> twilio'.closeCalls > 0
            /\ CompleteEnabled <=> twilio'.completeCalls > 0]_vars

\* Both calls were made and rejected: the conversation is still active and the
\* task still assigned, inactive_sent_at is written and the entry is gone.
C33_Witness ==
  \E sid \in FlexSids :
    /\ twilio.closures # <<>>
    /\ twilio.closeCalls > 0 /\ twilio.conversation = "active"
    /\ twilio.completeCalls > 0 /\ twilio.task = "assigned"
    /\ flex_tasks[sid].inactive_sent_at # NULL
    /\ ~Has(SchedState, sid)
    /\ calls = EmptyBag

\* A tick waits for the fetch of the worker, or has just been given its name.
Fetching(w) == \E t \in BagToSet(ticks) : t.pc = "flexFetch" /\ Head(t.list).workerSid = w

\* C35: the worker-name cache makes the worker fetch a once-per-worker call:
\* over any sequence of ticks workers(workerSid).fetch() is invoked at most
\* once per workerSid; a failed fetch caches the fallback name; a cached name is
\* never replaced; and a tick that needs the worker's name while one is cached
\* takes the cached name without a fetch.
C35_WorkerFetchedOnce ==
  [][\A w \in WorkerSids :
       /\ twilio'.fetches[w] <= 1
       /\ twilio'.fetches[w] # twilio.fetches[w] => workerNameCache[w] = ""
       /\ workerNameCache[w] # "" => workerNameCache'[w] = workerNameCache[w]
       /\ \A t \in BagToSet(ticks) :
            /\ (t.pc = "flexFetch" /\ Head(t.list).workerSid = w /\ FlexFetch(t, "fails")) =>
                 /\ workerNameCache'[w] = FallbackWorkerName(ProviderTasks[1])
                 /\ \E u \in BagToSet(ticks') :
                      u.pc = "flexUpsert" /\ Head(u.list).workerName = workerNameCache'[w]
            /\ (t.pc = "flexRead" /\ Head(t.list).workerSid = w /\ FlexRead(t)
                   /\ CallsResolveName(Head(t.list), flex_tasks[Head(t.list).id])
                   /\ workerNameCache[w] # "") =>
                 /\ ~Fetching(w)'
                 /\ \E u \in BagToSet(ticks') :
                      u.pc = "flexUpsert" /\ Head(u.list).workerName = workerNameCache[w]]_vars

\* The fetch failed once and the fallback is cached; a later tick, after the
\* row had been stored under the fallback name, took its name from the cache.
C35_Witness ==
  \E w \in WorkerSids, t \in BagToSet(ticks) :
    /\ twilio.fetches[w] = 1
    /\ workerNameCache[w] = FallbackWorkerName(ProviderTasks[1])
    /\ t.pc = "flexUpsert"
    /\ Head(t.list).existing.exists
    /\ Head(t.list).existing.worker_name = workerNameCache[w]
    /\ Head(t.list).workerName = workerNameCache[w]

\* Both timeouts of the entry of `id` have run.
BothFired(id) ==
  /\ Has(SchedState, id)
  /\ EntryTimeouts(SchedState, id) \cap pending = {}

\* C36: firing does not remove a scheduler entry. has(id) is true exactly when
\* the last call on the id is a schedule (not followed by a cancel), also after
\* both timeouts of the entry have run; and while has(id) is true the guarded
\* calls of the service, scheduleInternalInactivityTimers and
\* scheduleFlexInactivityTimers, leave the scheduler as it is, whatever the
\* greeting and the time.
C36_FiringKeepsEntry ==
  \A id \in TaskIds :
    /\ Has(SchedState, id) <=> lastOp[id].op = "schedule"
    /\ Has(SchedState, id) =>
         \A i \in 1..Len(Instants) :
           /\ ScheduleInternal(SchedState, id, GreetedRow(Instants[i], NULL), now) = SchedState
           /\ ScheduleFlex(SchedState, id, Instants[i], now) = SchedState

\* Both timeouts of an entry have run, their callbacks started, and the entry
\* is still in the map.
C36_Witness ==
  \E id \in TaskIds :
    /\ BothFired(id)
    /\ lastOp[id].op = "schedule"
    /\ now >= timers[id].inactiveTimeout
    /\ \E c \in BagToSet(calls) : c.id = id /\ c.kind = "inactive"

\* C37: no ping is produced for a task after its inactivity closure: in every
\* interleaving of the ping and inactivity callbacks of one entry, once the
\* closure message has been sent or the task's status is closed, no ping
\* message is sent and ping_sent_at is not written.
C37_NoPingAfterClosure ==
  [][\A id \in TaskIds :
       (sent[id].inactive > 0 \/ tasks[id].status = "closed") =>
         /\ sent'[id].ping = sent[id].ping
         /\ tasks'[id].ping_sent_at = tasks[id].ping_sent_at]_vars

\* The automation marks of a flex row and its created_at.
AutomationMarks(row) ==
  <<row.greeting_sent_at, row.ping_sent_at, row.inactive_sent_at,
    row.last_customer_activity_at, row.created_at>>

\* C38: the per-poll upsert of a flex task's base state preserves the
\* automation marks: upsertBaseState on an existing row leaves
\* greeting_sent_at, ping_sent_at, inactive_sent_at, last_customer_activity_at
\* and created_at unchanged, and no step of a tick erases the greeting or the
\* customer activity of a greeted row.
C38_UpsertPreservesMarks ==
  [][\A sid \in FlexSids :
       /\ \A t \in BagToSet(ticks) :
            (t.pc = "flexUpsert" /\ Head(t.list).id = sid /\ FlexUpsert(t)
               /\ flex_tasks[sid].exists) =>
              AutomationMarks(flex_tasks'[sid]) = AutomationMarks(flex_tasks[sid])
       /\ flex_tasks[sid].greeting_sent_at # NULL =>
            /\ flex_tasks'[sid].greeting_sent_at = flex_tasks[sid].greeting_sent_at
            /\ flex_tasks'[sid].last_customer_activity_at
                 = flex_tasks[sid].last_customer_activity_at]_vars

\* A row that holds all four marks went through an upsert of a later tick:
\* updated_at moved on, the marks and created_at are the stored ones.
C38_Witness ==
  \E sid \in FlexSids :
    /\ flex_tasks[sid].greeting_sent_at = Instants[1]
    /\ flex_tasks[sid].ping_sent_at = Instants[1]
    /\ flex_tasks[sid].inactive_sent_at = Instants[1]
    /\ flex_tasks[sid].last_customer_activity_at = Instants[1]
    /\ flex_tasks[sid].created_at = Instants[1]
    /\ flex_tasks[sid].updated_at > Instants[1]
    /\ flex_tasks[sid].worker_name # ""

\* A startOperatorHandoff of `id` called with sendGreeting = false.
SilentHandoffs(id) ==
  {r \in BagToSet(reqs) : r.id = id /\ r.op = "handoff" /\ ~r.greet}

\* C39: startOperatorHandoff with sendGreeting = false delivers no SMS, assigns
\* the task, writes greeting_sent_at = the time it took (ping_sent_at and
\* inactive_sent_at null) and on return the ping and the inactivity timeout of
\* the task are armed for that greeting.
C39_SilentHandoffArms ==
  [][\A id \in TaskIds : \A r \in SilentHandoffs(id) :
       /\ (r.pc = "assign" /\ ReqAssignWrite(r)) =>
            /\ tasks'[id].status = "assigned"
            /\ tasks'[id].operator
       /\ (r.pc = "send" /\ \E ok \in BOOLEAN : ReqHandoffSend(r, ok)) =>
            /\ ~GreetingDelivered(id)
            /\ \E q \in BagToSet(reqs') : q = [r EXCEPT !.pc = "greet", !.at = now]
       /\ (r.pc = "greet" /\ ReqGreetWrite(r)) =>
            /\ tasks'[id].greeting_sent_at = r.at
            /\ tasks'[id].ping_sent_at = NULL
            /\ tasks'[id].inactive_sent_at = NULL
            /\ Timeout(id, "ping", Max(now', r.at + PingDelayMs)) \in pending'
            /\ Timeout(id, "inactive", Max(now', r.at + InactiveDelayMs)) \in pending']_vars

====
